---- MODULE Spec2Model ----
(***************************************************************************)
(* Framing / crop engine of the repository (src/src/services/ffmpeg.ts,   *)
(* the part that is imported elsewhere as services/framingService).       *)
(*                                                                         *)
(* Numbers.  The source computes with IEEE doubles; TLA+ has integers.    *)
(*   - detection and track boxes and crop sizes are integers (pixels);     *)
(*   - keyframe positions x, y are fixed point, Sub units to the pixel;    *)
(*   - times are integer ticks, TicksPerSec ticks to the second;          *)
(*   - detection scores are hundredths (0..100);                           *)
(*   - a track velocity is the exact rational vx/vd, vy/vd pixels per tick;*)
(*   - zoom is fixed point, ZScale units to 1.0;                           *)
(*   - Math.round is round-half-up, Math.floor is \div.                    *)
(***************************************************************************)
EXTENDS Integers, Sequences, FiniteSets, TLC

VARIABLES
  base,          \* [w, h]: baseW, baseH of the source video
  tracks,        \* detectPersonsTimeline: let tracks: Track[]
  nextTrackId,   \* detectPersonsTimeline: let nextTrackId
  frameIdx,      \* detectPersonsTimeline: let frameIdx (= loop index i)
  lastOp,        \* which branch the last frame took: "none" | "associate" | "predict"
  prevTracks,    \* the track set the last frame started from
  lastDets,      \* the (area-filtered) detections the last frame was given
  kfIn,          \* the CropKF[] handed to the expression builder, the compressor
                 \* or the next stage of computeCropMapPerson
  maxKeyframes,  \* compressCropMap: maxKeyframes
  expr,          \* what buildPiecewiseExpr(kfIn, key) returned, with its key
  filter,        \* what buildFFmpegFilter(baseW, baseH, kfIn) returned, or that it threw
  compressed,    \* what compressCropMap(kfIn, maxKeyframes) returned
  pc,            \* computeCropMap / computeCropMapPerson: the statement to run next
  input,         \* the segment: ComputeInput and Constraints, and what the frames show
  snaps,         \* the PersonSnapshot[] of detectPersonsTimeline, then of buildTracks
  personKf,      \* what computeCropMapPerson returned
  cropMap,       \* what computeCropMap returned
  video,         \* computeGlobalStaticCrop: the source video, by what its windows show
  sampleIdx,     \* computeGlobalStaticCrop: the loop index i over the sampled windows
  faces,         \* computeGlobalStaticCrop: allDetections, equal detections grouped
  faceFrames,    \* the length of what the last detectFacesTimeline returned
  cropInfo,      \* what calculateCrop returned
  staticCrop,    \* what computeGlobalStaticCrop returned
  optIn,         \* globalOptimize1D: its arguments des, L, U, w, lambdaV, lambdaA, iters, lr
  optX,          \* globalOptimize1D: const x
  optIt,         \* globalOptimize1D: the loop index it
  optOut,        \* what globalOptimize1D returned
  status,        \* the status column of the video row
  job,           \* the job: how many segments are selected and windows sampled
  stage,         \* processVideo: the stages before the global crop that are done
  wpc,           \* processVideo: the statement to run next
  clipIdx,       \* processVideo: the index i of the clip loop
  windowsDone,   \* the windows computeGlobalStaticCrop has sampled for the job
  rendered,      \* the clips rendered so far
  persisted,     \* the clips for which prisma.clip.create has run
  caught,        \* the error the catch of processVideo received
  cancelPc,      \* the cancel route: the statement to run next
  atCancel       \* how far processVideo was when the route wrote 'cancelled'

trackVars == <<tracks, nextTrackId, frameIdx, lastOp, prevTracks, lastDets>>
kfVars == <<kfIn, maxKeyframes, expr, filter, compressed>>
cropVars == <<pc, input, snaps, personKf, cropMap>>
staticVars == <<video, sampleIdx, faces, faceFrames, cropInfo, staticCrop>>
solverVars == <<optIn, optX, optIt, optOut>>
workerVars == <<status, job, stage, wpc, clipIdx, windowsDone, rendered, persisted, caught, cancelPc,
                atCancel>>

vars == <<base, tracks, nextTrackId, frameIdx, lastOp, prevTracks, lastDets,
          kfIn, maxKeyframes, expr, filter, compressed,
          pc, input, snaps, personKf, cropMap,
          video, sampleIdx, faces, faceFrames, cropInfo, staticCrop,
          optIn, optX, optIt, optOut,
          status, job, stage, wpc, clipIdx, windowsDone, rendered, persisted, caught,
          cancelPc, atCancel>>

----------------------------------------------------------------------------
(* Units and bounds *)

DEFAULT_SAMPLE_FPS == 12
TicksPerSec == DEFAULT_SAMPLE_FPS * 250   \* one sampled frame is 250 ticks, 1 ms is 3
DETECT_EVERY == 3
TRACK_IOU_THRESH_PCT == 35
TRACK_MAX_AGE_MS == 800
TRACK_MIN_HITS == 2
MIN_TRACK_AREA == 300
MIN_DET_AREA == 100

MaxFrames == 12

TicksPerMs == TicksPerSec \div 1000
FrameTicks == TicksPerSec \div DEFAULT_SAMPLE_FPS
TRACK_MAX_AGE_S == TRACK_MAX_AGE_MS * TicksPerMs
MinDt == TicksPerMs          \* the 0.001 s floor of every dt

----------------------------------------------------------------------------
(* Arithmetic helpers *)

Max(a, b) == IF a >= b THEN a ELSE b
Min(a, b) == IF a <= b THEN a ELSE b
Abs(a) == IF a < 0 THEN -a ELSE a

\* Math.round(n / d) for d > 0: round half up
RoundDiv(n, d) == (2 * n + d) \div (2 * d)

clamp(value, min, max) ==
  IF value < min THEN min ELSE IF value > max THEN max ELSE value

Range(s) == {s[i] : i \in 1..Len(s)}

----------------------------------------------------------------------------
(* Multi-object tracker *)

Det(x, y, w, h, score) == [x |-> x, y |-> y, w |-> w, h |-> h, score |-> score]

\* IoU as the exact fraction i / u (0 is 0 / 1)
iouTrackDet(tr, d) ==
  LET xx1 == Max(tr.x, d.x)
      yy1 == Max(tr.y, d.y)
      xx2 == Min(tr.x + tr.w, d.x + d.w)
      yy2 == Min(tr.y + tr.h, d.y + d.h)
      inter == (xx2 - xx1) * (yy2 - yy1)
      uni == tr.w * tr.h + d.w * d.h - inter
  IN IF xx2 <= xx1 \/ yy2 <= yy1 THEN [i |-> 0, u |-> 1]
     ELSE IF uni <= 0 THEN [i |-> 0, u |-> 1]
     ELSE [i |-> inter, u |-> uni]

IouGt(a, b) == a.i * b.u > b.i * a.u

\* a slip: the association threshold taken as a strict majority overlap
IouGeThresh_Half(a) == a.i * 2 > a.u

\* bestIou >= TRACK_IOU_THRESH
IouGeThresh(a) == a.i * 100 >= TRACK_IOU_THRESH_PCT * a.u

\* the position a track is extrapolated to at time t (lines 2518-2520, 2617-2619)
PredictX(tr, dt, baseW) ==
  clamp(RoundDiv(tr.x * tr.vd + tr.vx * dt, tr.vd), 0, baseW - tr.w)
PredictY(tr, dt, baseH) ==
  clamp(RoundDiv(tr.y * tr.vd + tr.vy * dt, tr.vd), 0, baseH - tr.h)

predicted(prev, t, baseW, baseH) ==
  [ti \in 1..Len(prev) |->
     LET tr == prev[ti]
         dt == Max(MinDt, t - tr.lastT)
     IN [tr EXCEPT !.x = PredictX(tr, dt, baseW), !.y = PredictY(tr, dt, baseH)]]

\* inner loop over di: the first unused detection of strictly greatest IoU
RECURSIVE BestDet(_, _, _, _, _, _)
BestDet(tr, dets, usedD, di, bestIdx, bestIou) ==
  IF di > Len(dets) THEN [idx |-> bestIdx, iou |-> bestIou]
  ELSE IF di \in usedD THEN BestDet(tr, dets, usedD, di + 1, bestIdx, bestIou)
  ELSE LET iv == iouTrackDet(tr, dets[di])
       IN IF IouGt(iv, bestIou)
          THEN BestDet(tr, dets, usedD, di + 1, di, iv)
          ELSE BestDet(tr, dets, usedD, di + 1, bestIdx, bestIou)

\* outer loop over ti, in track order: matches as a sequence of [ti, di]
RECURSIVE MatchLoop(_, _, _, _, _)
MatchLoop(pred, dets, ti, usedD, matches) ==
  IF ti > Len(pred) THEN matches
  ELSE LET b == BestDet(pred[ti], dets, usedD, 1, 0, [i |-> 0, u |-> 1])
       IN IF b.idx >= 1 /\ IouGeThresh(b.iou)
          THEN MatchLoop(pred, dets, ti + 1, usedD \cup {b.idx},
                         Append(matches, [ti |-> ti, di |-> b.idx]))
          ELSE MatchLoop(pred, dets, ti + 1, usedD, matches)

Matches(pred, dets) == MatchLoop(pred, dets, 1, {}, <<>>)

MatchedTrack(tr, det, t) ==
  LET dt == Max(MinDt, t - tr.lastT)
  IN [id |-> tr.id, x |-> det.x, y |-> det.y, w |-> det.w, h |-> det.h,
      score |-> det.score,
      vx |-> (2 * det.x + det.w) - (2 * tr.x + tr.w),
      vy |-> (2 * det.y + det.h) - (2 * tr.y + tr.h),
      vd |-> 2 * dt,
      lastT |-> t, age |-> tr.age + dt, hits |-> tr.hits + 1, miss |-> 0]

\* an unmatched track survives while its miss duration is within the ceiling
MissKeeps(newMiss) == newMiss <= TRACK_MAX_AGE_S

UnmatchedTrack(tr, t) ==
  LET dt == Max(MinDt, t - tr.lastT)
  IN [tr EXCEPT !.lastT = t, !.age = tr.age + dt, !.miss = tr.miss + dt]

NewTrack(det, id, t) ==
  [id |-> id, x |-> det.x, y |-> det.y, w |-> det.w, h |-> det.h,
   score |-> det.score, vx |-> 0, vy |-> 0, vd |-> 1,
   lastT |-> t, age |-> 0, hits |-> 1, miss |-> 0]

RECURSIVE SpawnLoop(_, _, _, _, _)
SpawnLoop(dets, usedD, di, id, t) ==
  IF di > Len(dets) THEN <<>>
  ELSE IF di \in usedD THEN SpawnLoop(dets, usedD, di + 1, id, t)
  ELSE <<NewTrack(dets[di], id, t)>> \o SpawnLoop(dets, usedD, di + 1, id + 1, t)

associateAndUpdate(prev, dets, t, baseW, baseH, nextId) ==
  LET pred == predicted(prev, t, baseW, baseH)
      matches == Matches(pred, dets)
      usedT == {matches[k].ti : k \in 1..Len(matches)}
      usedD == {matches[k].di : k \in 1..Len(matches)}
      upd == [k \in 1..Len(matches) |->
                MatchedTrack(pred[matches[k].ti], dets[matches[k].di], t)]
      idxs == [ti \in 1..Len(pred) |-> ti]
      keptIdx == SelectSeq(idxs, LAMBDA ti :
                   ti \notin usedT /\ MissKeeps(UnmatchedTrack(pred[ti], t).miss))
      kept == [k \in 1..Len(keptIdx) |-> UnmatchedTrack(pred[keptIdx[k]], t)]
  IN upd \o kept \o SpawnLoop(dets, usedD, 1, nextId, t)

PredictedTrack(tr, t, dtDefault, baseW, baseH) ==
  LET dt == Max(MinDt, IF t - tr.lastT # 0 THEN t - tr.lastT ELSE dtDefault)
  IN [tr EXCEPT !.x = PredictX(tr, dt, baseW), !.y = PredictY(tr, dt, baseH),
                !.lastT = t, !.age = tr.age + dt, !.miss = tr.miss + dt]

\* a slip: prediction that advances every track and never ages one out
predictOnly_NoDrop(prev, t, dtDefault, baseW, baseH) ==
  [i \in 1..Len(prev) |-> PredictedTrack(prev[i], t, dtDefault, baseW, baseH)]

\* a slip: a predicted frame counted as a hit of the track
predictOnly_CountsHit(prev, t, dtDefault, baseW, baseH) ==
  LET all == [i \in 1..Len(prev) |->
                [PredictedTrack(prev[i], t, dtDefault, baseW, baseH)
                   EXCEPT !.hits = prev[i].hits + 1]]
  IN SelectSeq(all, LAMBDA tr : MissKeeps(tr.miss))

predictOnly(prev, t, dtDefault, baseW, baseH) ==
  LET all == [i \in 1..Len(prev) |-> PredictedTrack(prev[i], t, dtDefault, baseW, baseH)]
  IN SelectSeq(all, LAMBDA tr : MissKeeps(tr.miss))

RECURSIVE MaxId(_, _)
MaxId(trs, m) == IF trs = <<>> THEN m ELSE MaxId(Tail(trs), Max(m, Head(trs).id))

\* a slip: the counter is left where it was
NextIdAfter_Kept(trs, nextId) == nextId

\* lines 2418-2421 / 2665-2668
NextIdAfter(trs, nextId) == Max(nextId, MaxId(trs, nextId) + 1)

FilterMinArea(dets) == SelectSeq(dets, LAMBDA d : d.w * d.h >= MIN_DET_AREA)

----------------------------------------------------------------------------
(* Inputs of the tracker runs *)

Sources == {[w |-> 640, h |-> 360]}

DetA    == Det(100, 60, 80, 120, 90)
DetA60  == Det(160, 60, 80, 120, 80)
DetA30  == Det(130, 60, 80, 120, 85)
DetA20  == Det(120, 60, 80, 120, 85)
DetFar  == Det(430, 90, 70, 110, 70)
DetTiny == Det(300, 10, 9, 9, 60)

DetPalette ==
  { <<>>, <<DetA>>, <<DetA, DetA60>>, <<DetA30>>, <<DetA20, DetFar>>, <<DetTiny, DetFar>> }

----------------------------------------------------------------------------
(* detectPersonsTimeline: one action per sampled frame *)

FrameTime(i) == i * FrameTicks

doDetect == frameIdx % DETECT_EVERY = 0 \/ Len(tracks) = 0

None == [kind |-> "none"]

\* the keyframe side of the state before anything was computed
KfIdle ==
  /\ kfIn = <<>>
  /\ maxKeyframes = 0
  /\ expr = None
  /\ filter = None
  /\ compressed = None

\* computeCropMap is not running
CropIdle ==
  /\ pc = "idle"
  /\ input = None
  /\ snaps = <<>>
  /\ personKf = None
  /\ cropMap = None

\* globalOptimize1D is not running
SolverIdle ==
  /\ optIn = None
  /\ optX = <<>>
  /\ optIt = 0
  /\ optOut = None

\* no job is being processed
WorkerIdle ==
  /\ status = "none"
  /\ job = None
  /\ stage = 0
  /\ wpc = "idle"
  /\ clipIdx = 0
  /\ windowsDone = 0
  /\ rendered = {}
  /\ persisted = {}
  /\ caught = "none"
  /\ cancelPc = "idle"
  /\ atCancel = None

\* computeGlobalStaticCrop is not running
StaticIdle ==
  /\ video = None
  /\ sampleIdx = 0
  /\ faces = <<>>
  /\ faceFrames = 0
  /\ cropInfo = None
  /\ staticCrop = None

TrackInit ==
  /\ base \in Sources
  /\ KfIdle
  /\ CropIdle
  /\ StaticIdle
  /\ SolverIdle
  /\ WorkerIdle
  /\ tracks = <<>>
  /\ nextTrackId = 1
  /\ frameIdx = 0
  /\ lastOp = "none"
  /\ prevTracks = <<>>
  /\ lastDets = <<>>

DetectFrame ==
  /\ frameIdx < MaxFrames
  /\ doDetect
  /\ \E raw \in DetPalette :
       LET dets == FilterMinArea(raw)
           upd == associateAndUpdate(tracks, dets, FrameTime(frameIdx),
                                     base.w, base.h, nextTrackId)
       IN /\ tracks' = upd
          /\ nextTrackId' = NextIdAfter(upd, nextTrackId)
          /\ lastDets' = dets
  /\ prevTracks' = tracks
  /\ lastOp' = "associate"
  /\ frameIdx' = frameIdx + 1
  /\ UNCHANGED <<solverVars, workerVars, staticVars, base, kfVars, cropVars>>

PredictFrame ==
  /\ frameIdx < MaxFrames
  /\ ~doDetect
  /\ tracks' = predictOnly(tracks, FrameTime(frameIdx), FrameTicks, base.w, base.h)
  /\ prevTracks' = tracks
  /\ lastDets' = <<>>
  /\ lastOp' = "predict"
  /\ frameIdx' = frameIdx + 1
  /\ UNCHANGED <<solverVars, workerVars, staticVars, base, nextTrackId, kfVars, cropVars>>

TrackNext == DetectFrame \/ PredictFrame

SpecTrack == TrackInit /\ [][TrackNext]_vars

----------------------------------------------------------------------------
(* Properties of the tracker *)

lastT == FrameTime(frameIdx - 1)
lastPred == predicted(prevTracks, lastT, base.w, base.h)

\* overlap of two boxes at or above the association threshold, stated directly
OverlapOk(a, b) ==
  LET ix == Min(a.x + a.w, b.x + b.w) - Max(a.x, b.x)
      iy == Min(a.y + a.h, b.y + b.h) - Max(a.y, b.y)
      inter == ix * iy
  IN /\ ix > 0
     /\ iy > 0
     /\ inter * 100 >= TRACK_IOU_THRESH_PCT * (a.w * a.h + b.w * b.h - inter)

SameBox(a, b) == a.x = b.x /\ a.y = b.y /\ a.w = b.w /\ a.h = b.h

\* prev track ti came out of the last step as a matched track
PersistsMatched(ti) ==
  \E k \in 1..Len(tracks) :
     /\ tracks[k].id = prevTracks[ti].id
     /\ tracks[k].miss = 0
     /\ tracks[k].hits = prevTracks[ti].hits + 1

\* detection di was matched to prev track tj in the last step
GivenTo(di, tj) ==
  \E k \in 1..Len(tracks) :
     /\ tracks[k].id = prevTracks[tj].id
     /\ tracks[k].miss = 0
     /\ tracks[k].hits = prevTracks[tj].hits + 1
     /\ SameBox(tracks[k], lastDets[di])

\* C4 as stated: in associateAndUpdate every track whose predicted box overlaps
\* some detection of the frame with IoU >= TRACK_IOU_THRESH comes out matched
\* (same id, miss 0, hits + 1), whatever the other tracks and detections are.
C4_AnyOverlapPersists ==
  lastOp = "associate" =>
    \A ti \in 1..Len(prevTracks) :
      (\E di \in 1..Len(lastDets) : OverlapOk(lastPred[ti], lastDets[di]))
        => PersistsMatched(ti)

\* C4 amended: a track whose predicted box overlaps a detection with
\* IoU >= TRACK_IOU_THRESH comes out matched (same id, miss 0, hits + 1) unless
\* that detection was matched to a track earlier in the list; the detection is
\* never left to spawn a new track.
C4_OverlapPersistsUnlessTaken ==
  lastOp = "associate" =>
    \A ti \in 1..Len(prevTracks) : \A di \in 1..Len(lastDets) :
      OverlapOk(lastPred[ti], lastDets[di])
        => \/ PersistsMatched(ti)
           \/ \E tj \in 1..(ti - 1) : GivenTo(di, tj)

\* C4 witness: the second of two tracks overlaps a detection and is matched to it
C4_Witness ==
  /\ lastOp = "associate"
  /\ Len(prevTracks) >= 2
  /\ \E di \in 1..Len(lastDets) :
       /\ OverlapOk(lastPred[2], lastDets[di])
       /\ GivenTo(di, 2)

\* prev track p was not matched in the last step
Unmatched(p) == ~ \E k \in 1..Len(tracks) : tracks[k].id = p.id /\ tracks[k].miss = 0

StepDt(p) ==
  IF lastOp = "predict"
  THEN Max(MinDt, IF lastT - p.lastT # 0 THEN lastT - p.lastT ELSE FrameTicks)
  ELSE Max(MinDt, lastT - p.lastT)

\* C5: after every associateAndUpdate / predictOnly step, an unmatched track whose
\* accumulated miss duration is still <= TRACK_MAX_AGE_S is in the set with the
\* same id and hits, its predicted position and the larger miss duration; one whose
\* accumulated miss duration exceeds TRACK_MAX_AGE_S is gone; and no track of any
\* track set has miss > TRACK_MAX_AGE_S.
C5_MissAgeing ==
  /\ \A k \in 1..Len(tracks) : tracks[k].miss <= TRACK_MAX_AGE_MS * TicksPerMs
  /\ lastOp # "none" =>
       \A ti \in 1..Len(prevTracks) :
         LET p == prevTracks[ti]
             newMiss == p.miss + StepDt(p)
         IN Unmatched(p) =>
              IF newMiss <= TRACK_MAX_AGE_MS * TicksPerMs
              THEN \E k \in 1..Len(tracks) :
                      /\ tracks[k].id = p.id
                      /\ tracks[k].hits = p.hits
                      /\ tracks[k].miss = newMiss
                      /\ tracks[k].miss > p.miss
                      /\ tracks[k].x = PredictX(p, StepDt(p), base.w)
                      /\ tracks[k].y = PredictY(p, StepDt(p), base.h)
              ELSE ~ \E k \in 1..Len(tracks) : tracks[k].id = p.id

\* C5 witness: one step in which an unmatched track is aged out while another
\* unmatched track is kept
C5_Witness ==
  /\ lastOp # "none"
  /\ \E ti \in 1..Len(prevTracks) :
       /\ prevTracks[ti].miss + StepDt(prevTracks[ti]) > TRACK_MAX_AGE_MS * TicksPerMs
       /\ ~ \E k \in 1..Len(tracks) : tracks[k].id = prevTracks[ti].id
  /\ \E k \in 1..Len(tracks) : tracks[k].miss > 0

----------------------------------------------------------------------------
(* Fixed point and overflow-free arithmetic *)

ZScale == 10000              \* CropKF.z is carried in units of 1 / ZScale
Sub == 100                   \* CropKF.x, CropKF.y are carried in units of 1 / Sub pixel

\* Math.round of a position: whole pixels
Px(v) == RoundDiv(v, Sub)
Million == 1000 * 1000

\* quotient and remainder of a * b by c, for a, b >= 0 and c > 0, by doubling
RECURSIVE MulDivQR(_, _, _)
MulDivQR(a, b, c) ==
  IF b = 0 THEN [q |-> 0, r |-> 0]
  ELSE LET h == MulDivQR(a, b \div 2, c)
           q2 == 2 * h.q + (2 * h.r) \div c
           r2 == (2 * h.r) % c
       IN IF b % 2 = 0 THEN [q |-> q2, r |-> r2]
          ELSE [q |-> q2 + (a \div c) + ((r2 + (a % c)) \div c), r |-> (r2 + (a % c)) % c]

Sign(a) == IF a < 0 THEN -1 ELSE 1

\* a * b / c rounded to the nearest integer, halves away from zero (toFixed)
MulDivRound(a, b, c) ==
  LET qr == MulDivQR(Abs(a), Abs(b), c)
  IN Sign(a) * Sign(b) * (IF 2 * qr.r >= c THEN qr.q + 1 ELSE qr.q)

\* a * b / c truncated toward zero
MulDivTrunc(a, b, c) == Sign(a) * Sign(b) * MulDivQR(Abs(a), Abs(b), c).q

----------------------------------------------------------------------------
(* Keyframes *)

KF(t, x, y, w, h, z) ==
  [t |-> t, x |-> x, y |-> y, w |-> w, h |-> h, z |-> z, xs |-> 0, ys |-> 0]

RECURSIVE SeqMin(_)
SeqMin(s) == IF Len(s) = 1 THEN s[1] ELSE Min(s[1], SeqMin(Tail(s)))
RECURSIVE SeqMax(_)
SeqMax(s) == IF Len(s) = 1 THEN s[1] ELSE Max(s[1], SeqMax(Tail(s)))

----------------------------------------------------------------------------
(* Expression builder *)

\* t.toFixed(3): a time in whole milliseconds
ToFixed3(t) == RoundDiv(t, TicksPerMs)

\* slope.toFixed(6) of dv / Math.max(0.001, dt): micro-pixels per second,
\* for dv in 1 / Sub pixel and dt in ticks
SlopeFixed6(dv, dt) == MulDivRound(dv * TicksPerSec, Million \div Sub, Max(MinDt, dt))

KeyValue(k, key) ==
  IF key = "x" THEN k.x ELSE IF key = "y" THEN k.y ELSE IF key = "xs" THEN k.xs ELSE k.ys

ConstExpr(v) == [kind |-> "const", v |-> v]

PiecewiseExpr(lt, between, gte) ==
  [kind |-> "piecewise", lt |-> lt, between |-> between, gte |-> gte]

\* a slip: the constant form decided from the first and the last keyframe only
buildPiecewiseExpr_EndsOnly(kf, key) ==
  IF Len(kf) = 0 THEN ConstExpr(0)
  ELSE LET values == [i \in 1..Len(kf) |-> KeyValue(kf[i], key)]
       IN IF Abs(values[Len(kf)] - values[1]) < Sub /\ Len(kf) <= 2
          THEN ConstExpr(Px(values[1]))
          ELSE PiecewiseExpr(
                 [t |-> ToFixed3(kf[1].t), v |-> Px(values[1])],
                 [i \in 1..(Len(kf) - 1) |->
                    [ta |-> ToFixed3(kf[i].t), tb |-> ToFixed3(kf[i + 1].t),
                     v |-> Px(values[i]),
                     slope |-> SlopeFixed6(values[i + 1] - values[i], kf[i + 1].t - kf[i].t)]],
                 [t |-> ToFixed3(kf[Len(kf)].t), v |-> Px(values[Len(kf)])])

buildPiecewiseExpr(kf, key) ==
  IF Len(kf) = 0 THEN ConstExpr(0)
  ELSE LET values == [i \in 1..Len(kf) |-> KeyValue(kf[i], key)]
           isConstant == SeqMax(values) - SeqMin(values) < Sub
       IN IF isConstant
          THEN ConstExpr(Px(values[1]))
          ELSE PiecewiseExpr(
                 [t |-> ToFixed3(kf[1].t), v |-> Px(values[1])],
                 [i \in 1..(Len(kf) - 1) |->
                    [ta |-> ToFixed3(kf[i].t), tb |-> ToFixed3(kf[i + 1].t),
                     v |-> Px(values[i]),
                     slope |-> SlopeFixed6(values[i + 1] - values[i], kf[i + 1].t - kf[i].t)]],
                 [t |-> ToFixed3(kf[Len(kf)].t), v |-> Px(values[Len(kf)])])

\* Math.round(baseDim / z)
CropDim(baseDim, z) == RoundDiv(baseDim * ZScale, z)

\* baseDim / z in thousandths of a pixel
CropDimMilli(baseDim, z) == MulDivRound(baseDim * 1000, ZScale, z)

\* the slope of a dimension is taken from the unrounded baseDim / z
\* (here: to a thousandth of a pixel); the slope is in micro-pixels per second
buildCropDimensionExpr(kf, baseDim) ==
  IF Len(kf) = 0 THEN ConstExpr(baseDim)
  ELSE LET dimensions == [i \in 1..Len(kf) |-> CropDim(baseDim, kf[i].z)]
           isConstant == SeqMax(dimensions) - SeqMin(dimensions) < 1
       IN IF isConstant
          THEN ConstExpr(dimensions[1])
          ELSE PiecewiseExpr(
                 [t |-> ToFixed3(kf[1].t), v |-> dimensions[1]],
                 [i \in 1..(Len(kf) - 1) |->
                    [ta |-> ToFixed3(kf[i].t), tb |-> ToFixed3(kf[i + 1].t),
                     v |-> dimensions[i],
                     slope |-> MulDivRound(
                        CropDimMilli(baseDim, kf[i + 1].z) - CropDimMilli(baseDim, kf[i].z),
                        1000 * TicksPerSec, Max(MinDt, kf[i + 1].t - kf[i].t))]],
                 [t |-> ToFixed3(kf[Len(kf)].t), v |-> dimensions[Len(kf)]])

\* the value of an emitted expression at time t (whole milliseconds), in
\* thousandths: lt(t,a) is t < a, between(t,a,b) is a <= t <= b, gte(t,a) is t >= a
EvalExpr(e, t) ==
  IF e.kind = "const" THEN e.v * 1000
  ELSE LET ltPart == IF t < e.lt.t THEN e.lt.v * 1000 ELSE 0
           gtePart == IF t >= e.gte.t THEN e.gte.v * 1000 ELSE 0
           term(b) == IF b.ta <= t /\ t <= b.tb
                      THEN b.v * 1000 + MulDivTrunc(b.slope, t - b.ta, Million)
                      ELSE 0
           sumTo[i \in 0..Len(e.between)] ==
             IF i = 0 THEN 0 ELSE sumTo[i - 1] + term(e.between[i])
       IN ltPart + sumTo[Len(e.between)] + gtePart

\* string lengths of the emitted numbers
RECURSIVE Digits(_)
Digits(n) == IF n < 10 THEN 1 ELSE 1 + Digits(n \div 10)
IntLen(n) == IF n < 0 THEN 1 + Digits(-n) ELSE Digits(n)
Fixed3Len(ms) == IntLen(ms \div 1000) + 4
Fixed6Len(s6) == (IF s6 < 0 THEN 1 ELSE 0) + Digits(Abs(s6) \div Million) + 7

ExprLength(e) ==
  IF e.kind = "const" THEN IntLen(e.v)
  ELSE LET ltLen == 5 + Fixed3Len(e.lt.t) + 2 + IntLen(e.lt.v)
           gteLen == 6 + Fixed3Len(e.gte.t) + 2 + IntLen(e.gte.v)
           betLen(b) == 10 + Fixed3Len(b.ta) + 1 + Fixed3Len(b.tb) + 3 + IntLen(b.v)
                        + 2 + Fixed6Len(b.slope) + 6 + Fixed3Len(b.ta) + 2
           sumTo[i \in 0..Len(e.between)] ==
             IF i = 0 THEN 0 ELSE sumTo[i - 1] + 1 + betLen(e.between[i])
       IN ltLen + sumTo[Len(e.between)] + 1 + gteLen

MaxFilterLength == 65536
CheckedKeyframes == 5

TargetW(baseH) == (baseH * 9) \div 16
EvenTargetW(baseH) == (TargetW(baseH) \div 2) * 2

VALIDATOR_Z_FLOOR_PCT == 88

\* the zMin of buildFFmpegFilter, which it names in its error message:
\* Math.max(evenTargetW / baseW, 1.0, 0.88), in 1 / ZScale
ValidatorZMin(baseW, baseH) ==
  Max(Max(RoundDiv(EvenTargetW(baseH) * ZScale, baseW), ZScale),
      (VALIDATOR_Z_FLOOR_PCT * ZScale) \div 100)

\* one keyframe fails the validation of lines 2232-2254
InvalidCrop(k, baseW, baseH) ==
  LET cropW == CropDim(EvenTargetW(baseH), k.z)
      cropH == CropDim(baseH, k.z)
  IN \/ cropW > baseW \/ cropH > baseH
     \/ k.x < 0 \/ k.y < 0
     \/ k.x + cropW * Sub > baseW * Sub \/ k.y + cropH * Sub > baseH * Sub

buildFFmpegFilter(baseW, baseH, kf) ==
  LET evenTargetW == EvenTargetW(baseH)
      hasInvalidCrop ==
        \E i \in 1..Min(CheckedKeyframes, Len(kf)) : InvalidCrop(kf[i], baseW, baseH)
      xExpr == buildPiecewiseExpr(kf, "x")
      yExpr == buildPiecewiseExpr(kf, "y")
      cropWExpr == buildCropDimensionExpr(kf, evenTargetW)
      cropHExpr == buildCropDimensionExpr(kf, baseH)
      filterLength ==
        16 + ExprLength(cropWExpr) + ExprLength(cropHExpr) + ExprLength(xExpr)
           + ExprLength(yExpr)
           + 1 + 6 + IntLen(evenTargetW) + 1 + IntLen(baseH) + 11 + 1 + 14
  IN IF hasInvalidCrop THEN [kind |-> "threw", why |-> "invalid crop"]
     ELSE IF filterLength > MaxFilterLength THEN [kind |-> "threw", why |-> "too long"]
     ELSE [kind |-> "filter", w |-> cropWExpr, h |-> cropHExpr, x |-> xExpr,
           y |-> yExpr, length |-> filterLength]

----------------------------------------------------------------------------
(* Inputs of the expression builder: keyframe sequences over a small alphabet, *)
(* half a second apart                                                       *)

MaxKf == 6

KfStep == 6 * FrameTicks

\* [x, y, z], in pixels: inside the 640 x 360 source, except the last one
KfAlphabet ==
  { <<0, 0, ZScale>>, <<100, 0, ZScale>>, <<100, 20, (5 * ZScale) \div 4>>,
    <<600, 0, ZScale>> }

KfOf(i, a, baseH) ==
  KF((i - 1) * KfStep, a[1] * Sub, a[2] * Sub,
     CropDim(TargetW(baseH), a[3]), CropDim(baseH, a[3]), a[3])

KfSeq(f, baseH) == [i \in 1..Len(f) |-> KfOf(i, f[i], baseH)]

Keys == {"x", "y", "xs", "ys"}

FilterInit ==
  /\ base \in Sources
  /\ tracks = <<>> /\ nextTrackId = 1 /\ frameIdx = 0
  /\ lastOp = "none" /\ prevTracks = <<>> /\ lastDets = <<>>
  /\ \E n \in 0..MaxKf : \E f \in [1..n -> KfAlphabet] : kfIn = KfSeq(f, base.h)
  /\ maxKeyframes = 0
  /\ expr = None
  /\ filter = None
  /\ compressed = None
  /\ CropIdle
  /\ StaticIdle
  /\ SolverIdle
  /\ WorkerIdle

\* each run makes one call on its input
BuildPiecewiseExpr ==
  /\ expr = None /\ filter = None
  /\ \E key \in Keys :
       expr' = [kind |-> "expr", key |-> key, e |-> buildPiecewiseExpr(kfIn, key)]
  /\ UNCHANGED <<solverVars, workerVars, staticVars, base, trackVars, kfIn, maxKeyframes, filter, compressed, cropVars>>

BuildFFmpegFilter ==
  /\ expr = None /\ filter = None
  /\ filter' = buildFFmpegFilter(base.w, base.h, kfIn)
  /\ UNCHANGED <<solverVars, workerVars, staticVars, base, trackVars, kfIn, maxKeyframes, expr, compressed, cropVars>>

FilterNext == BuildPiecewiseExpr \/ BuildFFmpegFilter

SpecFilter == FilterInit /\ [][FilterNext]_vars

----------------------------------------------------------------------------
(* Properties of the expression builder *)

AnyInvalidCrop == \E i \in 1..Len(kfIn) : InvalidCrop(kfIn[i], base.w, base.h)

\* C7: buildFFmpegFilter throws, and returns no filter string, whenever any
\* keyframe of the sequence, at any index, has a crop larger than the source or
\* a crop rectangle that leaves the source.
C7_AnyInvalidKeyframeThrows ==
  (filter.kind # "none" /\ AnyInvalidCrop) => filter.kind = "threw"

\* what buildFFmpegFilter does do: it throws when one of the first
\* CheckedKeyframes keyframes is invalid
FirstKeyframesInvalidThrows ==
  (filter.kind # "none"
     /\ \E i \in 1..Min(CheckedKeyframes, Len(kfIn)) : InvalidCrop(kfIn[i], base.w, base.h))
  => filter.kind = "threw"

\* an invalid keyframe behind the checked ones, in a returned filter string
InvalidKeyframeAccepted == filter.kind = "filter" /\ AnyInvalidCrop

StrictlyIncreasingTimes(kf) == \A i \in 1..(Len(kf) - 1) : kf[i].t < kf[i + 1].t

\* the piecewise-linear function through the keyframes, at time t (whole
\* milliseconds), in thousandths
Interpolated(kf, key, t) ==
  LET n == Len(kf)
      tm(i) == ToFixed3(kf[i].t)
      v(i) == KeyValue(kf[i], key)
      milli == 1000 \div Sub
  IN IF t < tm(1) THEN v(1) * milli
     ELSE IF t >= tm(n) THEN v(n) * milli
     ELSE LET i == CHOOSE j \in 1..(n - 1) : tm(j) <= t /\ t < tm(j + 1)
          IN v(i) * milli
             + ((v(i + 1) - v(i)) * milli * (t - tm(i))) \div (tm(i + 1) - tm(i))

\* the times the expression is evaluated at: before the first keyframe, every
\* keyframe time, every midpoint and after the last keyframe
SampleTimes == { ((k - 1) * ToFixed3(KfStep)) \div 2 : k \in 0..(2 * MaxKf + 1) }

KeyframeTimes(kf) == { ToFixed3(kf[i].t) : i \in 1..Len(kf) }

AgreesAt(t) ==
  LET d == EvalExpr(expr.e, t) - Interpolated(kfIn, expr.key, t)
  IN -1 <= d /\ d <= 1

\* C8: for keyframes with strictly increasing times the emitted expression
\* evaluates at every time to the first value before the first keyframe, the
\* linear interpolation between adjacent keyframes, and the last value from
\* the last keyframe on, also at the interior and the last keyframe times.
C8_ExprIsPiecewiseLinear ==
  (expr.kind = "expr" /\ Len(kfIn) > 0 /\ StrictlyIncreasingTimes(kfIn))
  => \A t \in SampleTimes : AgreesAt(t)

\* what the expression does do: it agrees with the interpolation at every
\* time that is not the time of a keyframe after the first
C8_AgreesOffKeyframeTimes ==
  (expr.kind = "expr" /\ Len(kfIn) > 0 /\ StrictlyIncreasingTimes(kfIn))
  => \A t \in SampleTimes :
        (t \notin KeyframeTimes(kfIn) \/ t = ToFixed3(kfIn[1].t)) => AgreesAt(t)

\* the expression at an interior keyframe time is the sum of two segments
C8_DoubledAtKeyframe ==
  /\ expr.kind = "expr" /\ Len(kfIn) >= 3
  /\ expr.e.kind = "piecewise"
  /\ \E i \in 2..(Len(kfIn) - 1) :
       /\ KeyValue(kfIn[i], expr.key) > 0
       /\ EvalExpr(expr.e, ToFixed3(kfIn[i].t)) = 2 * 1000 * Px(KeyValue(kfIn[i], expr.key))

SameOnAxis(kf, key) == \A i \in 1..Len(kf) : KeyValue(kf[i], key) = KeyValue(kf[1], key)

\* C9: when x (respectively y) is the same in every keyframe, buildPiecewiseExpr
\* returns the constant form for that axis, a single number, whatever the
\* number of keyframes and whatever the other axes do; so do the x and y
\* expressions inside the filter string.
C9_ConstantAxisConstantForm ==
  /\ (expr.kind = "expr" /\ Len(kfIn) > 0 /\ expr.key \in {"x", "y"}
        /\ SameOnAxis(kfIn, expr.key))
     => expr.e = ConstExpr(Px(KeyValue(kfIn[1], expr.key)))
  /\ (filter.kind = "filter" /\ Len(kfIn) > 0)
     => /\ SameOnAxis(kfIn, "x") => filter.x = ConstExpr(Px(kfIn[1].x))
        /\ SameOnAxis(kfIn, "y") => filter.y = ConstExpr(Px(kfIn[1].y))

\* C9 witness: three or more keyframes, x the same in all of them while y and
\* the zoom change, and the x expression asked for
C9_Witness ==
  /\ expr.kind = "expr" /\ expr.key = "x"
  /\ Len(kfIn) >= 3
  /\ SameOnAxis(kfIn, "x")
  /\ ~ SameOnAxis(kfIn, "y")
  /\ \E i \in 1..Len(kfIn) : kfIn[i].z # kfIn[1].z
  /\ expr.e.kind = "const"

----------------------------------------------------------------------------
(* compressCropMap *)

COMPRESS_MAX_KEYFRAMES == 120          \* the ceiling computeCropMapPerson passes
COMPRESS_MIN_DT_MS == 150              \* timeDelta < 0.15
COMPRESS_MIN_DZ_PER_MILLE == 5         \* zoomDelta < 0.005

\* Math.sqrt(dx^2 + dy^2) < 1, in 1 / Sub pixel: dx^2 + dy^2 < Sub^2
NearDuplicate(prev, curr) ==
  LET dx == curr.x - prev.x
      dy == curr.y - prev.y
  IN /\ Abs(dx) < Sub /\ Abs(dy) < Sub
     /\ dx * dx + dy * dy < Sub * Sub
     /\ Abs(curr.z - prev.z) < (COMPRESS_MIN_DZ_PER_MILLE * ZScale) \div 1000

\* the loop of the filtering branch over kf[lo..hi] (1-based), entered with
\* the last kept keyframe prev: the keyframes it keeps and the last kept one.
\* The range is split in two halves run one after the other.
RECURSIVE FilterLoop(_, _, _, _)
FilterLoop(kf, lo, hi, prev) ==
  IF lo > hi THEN [kept |-> <<>>, prev |-> prev]
  ELSE IF lo = hi
  THEN LET curr == kf[lo]
       IN IF curr.t - prev.t < COMPRESS_MIN_DT_MS * TicksPerMs
          THEN [kept |-> <<>>, prev |-> prev]
          ELSE IF NearDuplicate(prev, curr)
          THEN [kept |-> <<>>, prev |-> prev]
          ELSE [kept |-> <<curr>>, prev |-> curr]
  ELSE LET mid == (lo + hi) \div 2
           first == FilterLoop(kf, lo, mid, prev)
           second == FilterLoop(kf, mid + 1, hi, first.prev)
       IN IF Len(first.kept) >= 0       \* the first half is run first
          THEN [kept |-> first.kept \o second.kept, prev |-> second.prev]
          ELSE first

Filtered(kf) == <<kf[1]>> \o FilterLoop(kf, 2, Len(kf) - 1, kf[1]).kept \o <<kf[Len(kf)]>>

\* Math.round(i * step) with step = kf.length / (maxKeyframes - 1), as a
\* 0-based index
DecimatedIdx(i, n, maxKf) == RoundDiv(i * n, maxKf - 1)

\* a slip: the decimation stops one short and leaves the last keyframe out
compressCropMap_NoLast(kf, maxKf) ==
  IF Len(kf) <= 2 THEN kf
  ELSE IF Len(kf) <= maxKf
  THEN Filtered(kf)
  ELSE <<kf[1]>> \o [i \in 1..(maxKf - 2) |-> kf[DecimatedIdx(i, Len(kf), maxKf) + 1]]

compressCropMap(kf, maxKf) ==
  IF Len(kf) <= 2 THEN kf
  ELSE IF Len(kf) <= maxKf
  THEN Filtered(kf)
  ELSE <<kf[1]>> \o [i \in 1..(maxKf - 2) |-> kf[DecimatedIdx(i, Len(kf), maxKf) + 1]]
         \o <<kf[Len(kf)]>>

----------------------------------------------------------------------------
(* Inputs of compressCropMap: deduplicated keyframes, two or three frames apart *)

MaxCompressLen == 180

\* [frames between keyframes, pixels moved per keyframe, zoom change per keyframe]
CompressShapes == { <<2, 0, 0>>, <<2, 3, 0>>, <<3, 1, 20>> }

CompressKf(n, shape, baseH) ==
  [i \in 1..n |->
     LET z == ZScale + ((i * shape[3]) % 1000)
     IN KF((i - 1) * shape[1] * FrameTicks, (100 + ((i * shape[2]) % 200)) * Sub, 0,
           CropDim(TargetW(baseH), z), CropDim(baseH, z), z)]

\* the ceiling of the one call site, and two small ones
Ceilings == {4, 7, COMPRESS_MAX_KEYFRAMES}

CompressInit ==
  /\ base \in Sources
  /\ tracks = <<>> /\ nextTrackId = 1 /\ frameIdx = 0
  /\ lastOp = "none" /\ prevTracks = <<>> /\ lastDets = <<>>
  /\ \E n \in 0..MaxCompressLen : \E shape \in CompressShapes :
       kfIn = CompressKf(n, shape, base.h)
  /\ maxKeyframes \in Ceilings
  /\ expr = None
  /\ filter = None
  /\ compressed = None
  /\ CropIdle
  /\ StaticIdle
  /\ SolverIdle
  /\ WorkerIdle

CompressCropMap ==
  /\ compressed = None
  /\ compressed' = [kind |-> "kfs", kf |-> compressCropMap(kfIn, maxKeyframes)]
  /\ UNCHANGED <<solverVars, workerVars, staticVars, base, trackVars, kfIn, maxKeyframes, expr, filter, cropVars>>

CompressNext == CompressCropMap

SpecCompress == CompressInit /\ [][CompressNext]_vars

\* C10: for any sequence of more than maxKeyframes keyframes compressCropMap
\* returns at most maxKeyframes keyframes, the first of them the original first
\* keyframe and the last of them the original last keyframe.
C10_DecimationKeepsEnds ==
  (compressed.kind = "kfs" /\ Len(kfIn) > maxKeyframes)
  => /\ Len(compressed.kf) <= maxKeyframes
     /\ compressed.kf[1] = kfIn[1]
     /\ compressed.kf[Len(compressed.kf)] = kfIn[Len(kfIn)]

\* C10 witness: more keyframes than the ceiling of the call site, cut down to
\* exactly that ceiling with both ends in place
C10_Witness ==
  /\ compressed.kind = "kfs"
  /\ maxKeyframes = COMPRESS_MAX_KEYFRAMES
  /\ Len(kfIn) > maxKeyframes + 30
  /\ Len(compressed.kf) = maxKeyframes
  /\ compressed.kf[1] = kfIn[1]
  /\ compressed.kf[maxKeyframes] = kfIn[Len(kfIn)]
  /\ kfIn[1] # kfIn[Len(kfIn)]

----------------------------------------------------------------------------
(* Loops over long sequences *)

\* a for loop over i = lo..hi that carries a state and appends to an output:
\* Step(st, i) is [st |-> the state after iteration i, out |-> what it appends].
\* The range is split in two halves run one after the other.
RECURSIVE Scan(_, _, _, _)
Scan(Step(_, _), st, lo, hi) ==
  IF lo > hi THEN [st |-> st, out |-> <<>>]
  ELSE IF lo = hi THEN Step(st, lo)
  ELSE LET mid == (lo + hi) \div 2
           first == Scan(Step, st, lo, mid)
           second == Scan(Step, first.st, mid + 1, hi)
       IN IF Len(first.out) >= 0       \* the first half is run first
          THEN [st |-> second.st, out |-> first.out \o second.out]
          ELSE first

\* the array [F(lo), ..., F(hi)]
RECURSIVE Build(_, _, _)
Build(F(_), lo, hi) ==
  IF lo > hi THEN <<>>
  ELSE IF lo = hi THEN <<F(lo)>>
  ELSE LET mid == (lo + hi) \div 2 IN Build(F, lo, mid) \o Build(F, mid + 1, hi)

\* F applied k >= 1 times to x, as [x, fixed]; once F(x) = x the remaining
\* applications change nothing and are skipped. The k applications are split
\* in two runs made one after the other.
RECURSIVE IterateRun(_, _, _)
IterateRun(F(_), x, k) ==
  IF k = 1 THEN LET y == F(x) IN [x |-> y, fixed |-> y = x]
  ELSE LET first == IterateRun(F, x, k \div 2)
       IN IF first.fixed THEN first ELSE IterateRun(F, first.x, k - k \div 2)

Iterate(F(_), x, k) == IF k <= 0 THEN x ELSE IterateRun(F, x, k).x

\* Math.floor(Math.sqrt(n)) for 0 <= n < 2^30
RECURSIVE IsqrtBetween(_, _, _)
IsqrtBetween(n, lo, hi) ==
  IF lo >= hi THEN lo
  ELSE LET mid == (lo + hi + 1) \div 2
       IN IF mid * mid <= n THEN IsqrtBetween(n, mid, hi) ELSE IsqrtBetween(n, lo, mid - 1)

Isqrt(n) == IsqrtBetween(n, 0, 32767)

----------------------------------------------------------------------------
(* The segment computeCropMap is called on *)

\* Constraints, fractions in hundredths: [margin, maxPan, easeMs, centerBiasX,
\* centerBiasY, safeTop, safeBottom]
WorkerConstraints ==
  [margin |-> 2, maxPan |-> 400, easeMs |-> 600, centerBiasX |-> 75,
   centerBiasY |-> 15, safeTop |-> 5, safeBottom |-> 10]
CenterRouteConstraints ==
  [margin |-> 10, maxPan |-> 200, easeMs |-> 500, centerBiasX |-> 30,
   centerBiasY |-> 50, safeTop |-> 10, safeBottom |-> 10]
TestConstraints ==
  [margin |-> 5, maxPan |-> 150, easeMs |-> 500, centerBiasX |-> 50,
   centerBiasY |-> 40, safeTop |-> 15, safeBottom |-> 10]
\* no margin, no easing, a slow pan
BareConstraints ==
  [margin |-> 0, maxPan |-> 20, easeMs |-> 0, centerBiasX |-> 100,
   centerBiasY |-> 0, safeTop |-> 0, safeBottom |-> 0]

ConstraintSets ==
  {WorkerConstraints, CenterRouteConstraints, TestConstraints, BareConstraints}

\* landscape, portrait, and a source narrower than 9:16 of its height
CropSources == {[w |-> 640, h |-> 360], [w |-> 360, h |-> 640], [w |-> 320, h |-> 720]}

\* a person box with its left edge at pct hundredths of the room the source leaves
Person(b, pct, score) ==
  Det(((b.w - 80) * pct) \div 100, b.h \div 6, 80, b.h \div 3, score)

\* what the detector sees in frame i of the segment, by the kind of footage
Scripts ==
  {"none", "tiny", "still", "walk", "two", "swap", "late", "gap", "flicker", "low", "throws"}

\* footage in which one person leaves and another comes in on the other side
HandoverScript == "handover"

\* detectPersons throws on frame i of the segment (when it is called on it)
DetectPersonsThrows(script, i) == script = "throws" /\ i = DETECT_EVERY

Detections(script, b, i, frames) ==
  IF script = "still" \/ script = "throws" THEN <<Person(b, 30, 90)>>
  ELSE IF script = "walk" THEN <<Person(b, Min(95, 5 + i), 85)>>
  ELSE IF script = "two" THEN <<Person(b, 10, 70), Person(b, 90, 90)>>
  ELSE IF script = "swap"
  THEN (IF i < 6 THEN <<Person(b, 10, 90), Person(b, 90, 70)>>
        ELSE <<Person(b, 10, 70), Person(b, 90, 90)>>)
  ELSE IF script = HandoverScript
  THEN (IF i < 6 THEN <<Person(b, 10, 90)>> ELSE <<Person(b, 90, 95)>>)
  ELSE IF script = "late" THEN (IF i >= frames - 2 THEN <<Person(b, 60, 90)>> ELSE <<>>)
  ELSE IF script = "gap" THEN (IF i < 7 THEN <<Person(b, 60, 90)>> ELSE <<>>)
  ELSE IF script = "flicker" THEN (IF i % 2 = 0 THEN <<Person(b, 30, 80)>> ELSE <<>>)
  ELSE IF script = "low"
  THEN <<Det(((b.w - 80) * 70) \div 100, b.h \div 2, 80, b.h \div 3, 90)>>
  ELSE IF script = "tiny" THEN <<Det(b.w \div 2, 10, 9, 9, 60)>>
  ELSE <<>>

\* TranscriptWord[]: [t, end, speaker], times in ticks
Transcripts ==
  { <<>>,
    << [t |-> 0, end |-> 2 * FrameTicks, speaker |-> "A"],
       [t |-> 3 * FrameTicks, end |-> 5 * FrameTicks, speaker |-> "A"],
       [t |-> 6 * FrameTicks, end |-> 12 * FrameTicks, speaker |-> "B"] >>,
    << [t |-> 0, end |-> 25 * FrameTicks, speaker |-> "A"] >> }

SegEnd(inp) == inp.segStart + inp.frames * FrameTicks

----------------------------------------------------------------------------
(* detectPersonsTimeline and buildTracks, whole *)

DetLike(tr) ==
  [x |-> tr.x, y |-> tr.y, w |-> tr.w, h |-> tr.h, score |-> tr.score, id |-> tr.id]

\* the snapshot pushed for time t: the tracks that pass keep, as detections
Snapshot(t, alive) ==
  << [t |-> t, dets |-> [k \in 1..Len(alive) |-> DetLike(alive[k])]] >>

TimelineAlive(trs) ==
  SelectSeq(trs, LAMBDA tr : tr.hits >= TRACK_MIN_HITS /\ tr.w * tr.h >= MIN_TRACK_AREA)

\* the end of one iteration of the frame loop, trs the tracks it computed
TimelineAfter(trs, nextId, detect, t) ==
  [st |-> [tracks |-> trs,
           nextTrackId |-> IF detect THEN NextIdAfter(trs, nextId) ELSE nextId,
           threw |-> FALSE],
   out |-> Snapshot(t, TimelineAlive(trs))]

\* one iteration of the frame loop: st is [tracks, nextTrackId, threw], threw
\* once detectPersons has thrown and the loop is left for the catch
TimelineStep(inp, b, st, i) ==
  LET t == inp.segStart + i * FrameTicks
      detect == i % DETECT_EVERY = 0 \/ Len(st.tracks) = 0
  IN IF st.threw THEN [st |-> st, out |-> <<>>]
     ELSE IF detect /\ DetectPersonsThrows(inp.script, i)
     THEN [st |-> [st EXCEPT !.threw = TRUE], out |-> <<>>]
     ELSE TimelineAfter(
       IF detect
       THEN associateAndUpdate(st.tracks,
                               FilterMinArea(Detections(inp.script, b, i, inp.frames)),
                               t, b.w, b.h, st.nextTrackId)
       ELSE predictOnly(st.tracks, t, FrameTicks, b.w, b.h),
       st.nextTrackId, detect, t)

\* return out, or [] from the catch
TimelineOf(run) == IF run.st.threw THEN <<>> ELSE run.out

detectPersonsTimeline(inp, b) ==
  IF inp.frames = 0 THEN <<>>
  ELSE TimelineOf(Scan(LAMBDA st, i : TimelineStep(inp, b, st, i),
                       [tracks |-> <<>>, nextTrackId |-> 1, threw |-> FALSE],
                       0, inp.frames - 1))

BuildTracksAlive(trs) ==
  SelectSeq(trs, LAMBDA tr :
    /\ tr.hits >= TRACK_MIN_HITS
    /\ tr.miss <= TRACK_MAX_AGE_S
    /\ tr.w * tr.h >= MIN_TRACK_AREA)

BuildTracksAfter(trs, nextId, t) ==
  [st |-> [tracks |-> trs, nextId |-> NextIdAfter(trs, nextId)],
   out |-> Snapshot(t, BuildTracksAlive(trs))]

\* one iteration of buildTracks: st is [tracks, nextId]
BuildTracksStep(sn, b, st, i) ==
  BuildTracksAfter(associateAndUpdate(st.tracks, sn[i].dets, sn[i].t, b.w, b.h, st.nextId),
                   st.nextId, sn[i].t)

buildTracks(sn, b) ==
  Scan(LAMBDA st, i : BuildTracksStep(sn, b, st, i),
       [tracks |-> <<>>, nextId |-> 1], 1, Len(sn)).out

----------------------------------------------------------------------------
(* Speaker turns and anchors *)

SPEAKER_GAP == (6 * TicksPerSec) \div 10        \* 0.6 s
SPEAKER_LEAD == (2 * TicksPerSec) \div 10       \* 0.2 s

\* the words are sorted by t (stable insertion)
RECURSIVE SortByT(_)
SortByT(ws) ==
  IF Len(ws) <= 1 THEN ws
  ELSE LET rest == SortByT(Tail(ws))
           w == Head(ws)
           before == SelectSeq(rest, LAMBDA r : r.t < w.t)
           after == SelectSeq(rest, LAMBDA r : r.t >= w.t)
       IN before \o <<w>> \o after

OpenTurn(w, segStart, segEnd) ==
  [start |-> Max(segStart, w.t), end |-> Min(segEnd, w.end), label |-> w.speaker]

\* the loop of buildSpeakerTurns over the filtered words: cur is the open turn
RECURSIVE TurnLoop(_, _, _, _, _, _)
TurnLoop(ws, i, cur, turns, segStart, segEnd) ==
  IF i > Len(ws) THEN Append(turns, cur)
  ELSE LET w == ws[i]
       IN IF w.speaker = cur.label /\ w.t - cur.end <= SPEAKER_GAP
          THEN TurnLoop(ws, i + 1,
                        [cur EXCEPT !.end = Min(segEnd, Max(cur.end, w.end))],
                        turns, segStart, segEnd)
          ELSE TurnLoop(ws, i + 1, OpenTurn(w, segStart, segEnd),
                        Append(turns, cur), segStart, segEnd)

buildSpeakerTurns(words, segStart, segEnd) ==
  LET filtered == SortByT(SelectSeq(words, LAMBDA w :
                    w.speaker # "" /\ w.end >= segStart /\ w.t <= segEnd))
  IN IF Len(filtered) = 0 THEN <<>>
     ELSE TurnLoop(filtered, 2, OpenTurn(filtered[1], segStart, segEnd), <<>>,
                   segStart, segEnd)

\* the label of the turn that overlaps [t - 0.6, t + 0.2] most, "" for null
RECURSIVE SpeakerLoop(_, _, _, _, _)
SpeakerLoop(t, turns, i, best, bestOverlap) ==
  IF i > Len(turns) THEN best
  ELSE LET u == Max(t - SPEAKER_GAP, turns[i].start)
           v == Min(t + SPEAKER_LEAD, turns[i].end)
           ov == Max(0, v - u)
       IN IF ov > bestOverlap THEN SpeakerLoop(t, turns, i + 1, turns[i].label, ov)
          ELSE SpeakerLoop(t, turns, i + 1, best, bestOverlap)

activeSpeakerAt(t, turns) == SpeakerLoop(t, turns, 1, "", 0)

\* area * score * (0.5 + 0.5 * centr), score in hundredths, centr in thousandths
anchorScore(d, baseW, baseH) ==
  LET area == d.w * d.h
      dx == (Abs(2 * d.x + d.w - baseW) * 1000) \div baseW
      dy == (Abs(2 * d.y + d.h - baseH) * 1000) \div baseH
      centr == 1000 - Min(1000, Isqrt(dx * dx + dy * dy))
  IN MulDivTrunc(area * d.score, 1000 + centr, 2000)

RECURSIVE AnchorLoop(_, _, _, _, _, _)
AnchorLoop(dets, i, best, bestScore, baseW, baseH) ==
  IF i > Len(dets) THEN best
  ELSE LET sc == anchorScore(dets[i], baseW, baseH)
       IN IF sc > bestScore THEN AnchorLoop(dets, i + 1, dets[i], sc, baseW, baseH)
          ELSE AnchorLoop(dets, i + 1, best, bestScore, baseW, baseH)

chooseAnchor(dets, baseW, baseH) ==
  AnchorLoop(dets, 2, dets[1], anchorScore(dets[1], baseW, baseH), baseW, baseH)

RECURSIVE BoundsLoop(_, _, _)
BoundsLoop(dets, i, b) ==
  IF i > Len(dets) THEN b
  ELSE LET d == dets[i]
       IN BoundsLoop(dets, i + 1,
            [minX |-> Min(b.minX, d.x), minY |-> Min(b.minY, d.y),
             maxX |-> Max(b.maxX, d.x + d.w), maxY |-> Max(b.maxY, d.y + d.h)])

\* for a non-empty dets; in 1 / Sub pixel
computeBounds(dets) ==
  LET d == dets[1]
      b == BoundsLoop(dets, 2, [minX |-> d.x, minY |-> d.y,
                                maxX |-> d.x + d.w, maxY |-> d.y + d.h])
  IN [minX |-> b.minX * Sub, maxX |-> b.maxX * Sub,
      minY |-> b.minY * Sub, maxY |-> b.maxY * Sub]

boundsToGroup(b) ==
  [groupW |-> b.maxX - b.minX, groupH |-> b.maxY - b.minY,
   minX |-> b.minX, maxX |-> b.maxX, minY |-> b.minY, maxY |-> b.maxY]

Labels == {"A", "B"}

\* a slip: the group bounds taken around the anchor instead of all detections
AnchorStep_AnchorBounds(timeline, turns, b, map, i) ==
  LET snap == timeline[i]
      spk == activeSpeakerAt(snap.t, turns)
      found == IF spk # "" /\ map[spk] # 0
               THEN SelectSeq(snap.dets, LAMBDA d : d.id = map[spk])
               ELSE <<>>
      pick == chooseAnchor(snap.dets, b.w, b.h)
      anchor == IF Len(found) > 0 THEN found[1] ELSE pick
      map2 == IF spk # "" /\ Len(found) = 0 THEN [map EXCEPT ![spk] = pick.id] ELSE map
  IN IF Len(snap.dets) = 0 THEN [st |-> map, out |-> <<>>]
     ELSE [st |-> map2,
           out |-> << [anchor |-> anchor,
                       bounds |-> boundsToGroup(computeBounds(<<anchor>>)),
                       t |-> snap.t] >>]

\* a slip: the track picked for a speaker is not remembered
AnchorStep_Forgetful(timeline, turns, b, map, i) ==
  LET snap == timeline[i]
      spk == activeSpeakerAt(snap.t, turns)
      found == IF spk # "" /\ map[spk] # 0
               THEN SelectSeq(snap.dets, LAMBDA d : d.id = map[spk])
               ELSE <<>>
      pick == chooseAnchor(snap.dets, b.w, b.h)
      anchor == IF Len(found) > 0 THEN found[1] ELSE pick
  IN IF Len(snap.dets) = 0 THEN [st |-> map, out |-> <<>>]
     ELSE [st |-> map,
           out |-> << [anchor |-> anchor,
                       bounds |-> boundsToGroup(computeBounds(snap.dets)),
                       t |-> snap.t] >>]

\* one iteration of the anchor loop: map is the speaker -> track id record,
\* 0 for a speaker not mapped yet
AnchorStep(timeline, turns, b, map, i) ==
  LET snap == timeline[i]
      spk == activeSpeakerAt(snap.t, turns)
      found == IF spk # "" /\ map[spk] # 0
               THEN SelectSeq(snap.dets, LAMBDA d : d.id = map[spk])
               ELSE <<>>
      pick == chooseAnchor(snap.dets, b.w, b.h)
      anchor == IF Len(found) > 0 THEN found[1] ELSE pick
      map2 == IF spk # "" /\ Len(found) = 0 THEN [map EXCEPT ![spk] = pick.id] ELSE map
  IN IF Len(snap.dets) = 0 THEN [st |-> map, out |-> <<>>]
     ELSE [st |-> map2,
           out |-> << [anchor |-> anchor,
                       bounds |-> boundsToGroup(computeBounds(snap.dets)),
                       t |-> snap.t] >>]

Anchors(timeline, turns, b) ==
  Scan(LAMBDA map, i : AnchorStep(timeline, turns, b, map, i),
       [l \in Labels |-> 0], 1, Len(timeline)).out

----------------------------------------------------------------------------
(* computeGlobalCropKeyframesFromTracksWithSpeechAndZoom *)

SMOOTH_ALPHA_PCT == 20
DEADZONE_X == 70
DEADZONE_Y == 50
MAX_ACCEL == 900
GLOB_LAMBDA_V == 80
GLOB_LAMBDA_A == 500
GLOB_ITERS == 80
GLOB_LR_PCT == 15
Z_MIN_PCT == 88
Z_DECAY_PCT == 20

\* a fraction pct / 100 of v
Pct(v, pct) == RoundDiv(v * pct, 100)

\* one call of applyTemporalSmoothing: st is the SmoothingState, None while null
SmoothingStep(anchors, st, i) ==
  LET a == anchors[i].anchor
      rawX == a.x * Sub + (a.w * Sub) \div 2
      rawY == a.y * Sub + (a.h * Sub) \div 2
      first == [kind |-> "set", smoothedX |-> rawX, smoothedY |-> rawY]
      targetX == IF Abs(rawX - st.smoothedX) <= DEADZONE_X * Sub THEN st.smoothedX ELSE rawX
      targetY == IF Abs(rawY - st.smoothedY) <= DEADZONE_Y * Sub THEN st.smoothedY ELSE rawY
      next == [kind |-> "set",
               smoothedX |-> st.smoothedX + Pct(targetX - st.smoothedX, SMOOTH_ALPHA_PCT),
               smoothedY |-> st.smoothedY + Pct(targetY - st.smoothedY, SMOOTH_ALPHA_PCT)]
  IN IF st.kind = "none" THEN [st |-> first, out |-> <<first>>]
     ELSE [st |-> next, out |-> <<next>>]

SmoothedAnchors(anchors) ==
  Scan(LAMBDA st, i : SmoothingStep(anchors, st, i), None, 1, Len(anchors)).out

\* lengths in 1 / Sub pixel; targetW, targetH, baseW, baseH in pixels
buildFeasible(group, targetW, targetH, baseW, baseH, cons, smoothed) ==
  LET marginX == Pct(targetW * Sub, Max(0, cons.margin))
      minMarginY == Pct(targetH * Sub, 10)
      adaptiveMarginY == Max(minMarginY, Pct(group.groupH, 60))
      topPad == Max(minMarginY, Pct(adaptiveMarginY, 60))
      bottomPad == adaptiveMarginY
      paddedMinX == clamp(group.minX - marginX, 0, baseW * Sub)
      paddedMaxX == clamp(group.maxX + marginX, 0, baseW * Sub)
      paddedMinY == clamp(group.minY - topPad, 0, baseH * Sub)
      paddedMaxY == clamp(group.maxY + bottomPad, 0, baseH * Sub)
      frameCenterX == (baseW * Sub) \div 2
      blend == Max(0, Min(100, cons.centerBiasX))
      desiredCenterX == Pct(smoothed.smoothedX, blend) + Pct(frameCenterX, 100 - blend)
      torsoBias == Min(Pct(targetH * Sub, 18), Pct(group.groupH, 60))
      desiredCenterY == (paddedMinY + paddedMaxY) \div 2 + torsoBias
                        - Pct(targetH * Sub, cons.centerBiasY)
      insetX == Max(8, (targetW * 6) \div 100)
      insetY == Max(8, (targetH * 8) \div 100)
      xRoom == Max(0, baseW - targetW) * Sub
      xL0 == clamp(paddedMaxX + (insetX - targetW) * Sub, 0, xRoom)
      xU0 == clamp(paddedMinX - insetX * Sub, 0, xRoom)
      xM == clamp((paddedMinX + paddedMaxX) \div 2 - (targetW * Sub) \div 2, 0, xRoom)
      xL == IF xL0 > xU0 THEN xM ELSE xL0
      xU == IF xL0 > xU0 THEN xM ELSE xU0
      minY == (0 - RoundDiv(targetH * cons.safeTop, 100)) * Sub
      maxY == (baseH - targetH + RoundDiv(targetH * cons.safeBottom, 100)) * Sub
      yL0 == clamp(paddedMaxY + (insetY - targetH) * Sub, minY, maxY)
      yU0 == clamp(paddedMinY - insetY * Sub, minY, maxY)
      yM == clamp((paddedMinY + paddedMaxY) \div 2 - (targetH * Sub) \div 2, minY, maxY)
      yL == IF yL0 > yU0 THEN yM ELSE yL0
      yU == IF yL0 > yU0 THEN yM ELSE yU0
  IN [xL |-> xL, xU |-> xU, yL |-> yL, yU |-> yU,
      xDes |-> clamp(desiredCenterX - (targetW * Sub) \div 2, xL, xU),
      yDes |-> clamp(desiredCenterY - (targetH * Sub) \div 2, yL, yU),
      groupW |-> paddedMaxX - paddedMinX, groupH |-> paddedMaxY - paddedMinY,
      insetX |-> insetX, insetY |-> insetY]

\* a slip: the step kept above L and never brought back under U
Bounded_FromBelow(v, lo, hi) == IF v < lo THEN lo ELSE v

\* if (x[i] < L[i]) x[i] = L[i]; if (x[i] > U[i]) x[i] = U[i]
Bounded(v, lo, hi) ==
  LET low == IF v < lo THEN lo ELSE v
  IN IF low > hi THEN hi ELSE low

\* one iteration of the gradient loop on x; ww and lr in hundredths
GradientStepWith(x, des, L, U, ww, lambdaV, lambdaA, lr) ==
  LET n == Len(x)
      dv(i) == x[i] - x[i - 1]
      da(i) == x[i + 1] - 2 * x[i] + x[i - 1]
      g(i) ==
        (2 * ww[i] * (x[i] - des[i])) \div 100
        + (IF i >= 2 THEN 2 * lambdaV * dv(i) ELSE 0)
        - (IF i <= n - 1 THEN 2 * lambdaV * dv(i + 1) ELSE 0)
        + (IF i >= 3 THEN 2 * lambdaA * da(i - 1) ELSE 0)
        - (IF i >= 2 /\ i <= n - 1 THEN 4 * lambdaA * da(i) ELSE 0)
        + (IF i <= n - 2 THEN 2 * lambdaA * da(i + 1) ELSE 0)
  IN Build(LAMBDA i : Bounded(x[i] - MulDivRound(g(i), lr, 100), L[i], U[i]), 1, n)

GradientStep(x, des, L, U, ww) ==
  GradientStepWith(x, des, L, U, ww, GLOB_LAMBDA_V, GLOB_LAMBDA_A, GLOB_LR_PCT)

\* const ww = w.map((s) => Math.max(0.2, Math.min(1, s)))
ClampedWeights(w) == Build(LAMBDA i : Max(20, Min(100, w[i])), 1, Len(w))

globalOptimize1D(des, L, U, w) ==
  Iterate(LAMBDA x : GradientStep(x, des, L, U, ClampedWeights(w)), des, GLOB_ITERS)

\* Math.max(targetW / baseW, 1.0, Z_MIN), in 1 / ZScale
\* a slip: the configured floor alone
ZMin_ConfiguredOnly(targetW, baseW) == (Z_MIN_PCT * ZScale) \div 100

ZMin(targetW, baseW) ==
  Max(Max(RoundDiv(targetW * ZScale, baseW), ZScale), (Z_MIN_PCT * ZScale) \div 100)

\* one iteration of solveZoomSeries: st is the last z pushed, 0 before the first
ZoomStep(groups, targetW, targetH, zMin, st, i) ==
  LET needX == groups[i].w + 2 * groups[i].insetX * Sub      \* times targetW * Sub
      needY == groups[i].h + 2 * groups[i].insetY * Sub      \* times targetH * Sub
      overX == needX > targetW * Sub
      overY == needY > targetH * Sub
      \* 1 / Math.max(needX, needY)
      inv == Min(RoundDiv(targetW * Sub * ZScale, needX),
                 RoundDiv(targetH * Sub * ZScale, needY))
      zr == IF overX \/ overY THEN Max(zMin, inv) ELSE ZScale
      blended == st + Pct(zr - st, Z_DECAY_PCT)
      z == IF i = 1 THEN zr ELSE Max(zMin, blended)
  IN [st |-> z, out |-> <<z>>]

solveZoomSeries(groups, targetW, targetH, zMin) ==
  Scan(LAMBDA st, i : ZoomStep(groups, targetW, targetH, zMin, st, i),
       0, 1, Len(groups)).out

\* the feasible windows of the anchors, one call of applyTemporalSmoothing and
\* of buildFeasible per anchor
FeasibleWindows(anchors, smoothedAnchors, targetW, baseW, baseH, cons) ==
  Build(LAMBDA i : buildFeasible(anchors[i].bounds, targetW, baseH,
                                 baseW, baseH, cons, smoothedAnchors[i]),
        1, Len(anchors))

\* the keyframe pushed for one anchor: x, y rounded and kept inside the source
RawKeyframe(t, x, y, z, targetW, baseW, baseH) ==
  KF(t, Max(0, Min(Px(x), baseW - CropDim(targetW, z))) * Sub,
        Max(0, Min(Px(y), baseH - CropDim(baseH, z))) * Sub,
     targetW, baseH, z)

KeyframesOfSeries(anchors, xs, ys, zs, targetW, baseW, baseH) ==
  Build(LAMBDA i : RawKeyframe(anchors[i].t, xs[i], ys[i], zs[i], targetW, baseW, baseH),
        1, Len(anchors))

\* the three series solved over the windows f, and the keyframes made of them
SolvedKeyframes(anchors, f, wts, targetW, baseW, baseH) ==
  LET n == Len(anchors)
  IN KeyframesOfSeries(anchors,
       globalOptimize1D(Build(LAMBDA i : f[i].xDes, 1, n),
                        Build(LAMBDA i : f[i].xL, 1, n),
                        Build(LAMBDA i : f[i].xU, 1, n), wts),
       globalOptimize1D(Build(LAMBDA i : f[i].yDes, 1, n),
                        Build(LAMBDA i : f[i].yL, 1, n),
                        Build(LAMBDA i : f[i].yU, 1, n), wts),
       solveZoomSeries(Build(LAMBDA i : [w |-> f[i].groupW, h |-> f[i].groupH,
                                         insetX |-> f[i].insetX, insetY |-> f[i].insetY],
                             1, n),
                       targetW, baseH, ZMin(targetW, baseW)),
       targetW, baseW, baseH)

\* if (anchors.length === 0) return [], and the rest of the function
KeyframesOfAnchors(anchors, targetW, baseW, baseH, cons) ==
  IF Len(anchors) = 0 THEN <<>>
  ELSE SolvedKeyframes(anchors,
         FeasibleWindows(anchors, SmoothedAnchors(anchors), targetW, baseW, baseH, cons),
         Build(LAMBDA i : anchors[i].anchor.score, 1, Len(anchors)),
         targetW, baseW, baseH)

computeGlobalCropKeyframes(timeline, turns, baseW, baseH, cons) ==
  KeyframesOfAnchors(Anchors(timeline, turns, [w |-> baseW, h |-> baseH]),
                     TargetW(baseH), baseW, baseH, cons)

----------------------------------------------------------------------------
(* The stages between the raw keyframes and the crop map *)

DEADZONE_Z == ZScale \div 100                    \* 0.01
DEDUPE_MIN_DELTA == TicksPerSec \div 10          \* dedupeByTime(withScaled, 0.1)

\* st is [sx, sy, sz], the running averages
SmoothKfStep(kf, st, i) ==
  LET sx == st.sx + Pct(kf[i].x - st.sx, SMOOTH_ALPHA_PCT)
      sy == st.sy + Pct(kf[i].y - st.sy, SMOOTH_ALPHA_PCT)
      sz == st.sz + Pct(kf[i].z - st.sz, SMOOTH_ALPHA_PCT)
  IN [st |-> [sx |-> sx, sy |-> sy, sz |-> sz],
      out |-> <<KF(kf[i].t, Px(sx) * Sub, Px(sy) * Sub, kf[i].w, kf[i].h, sz)>>]

smoothKeyframes(kf) ==
  IF Len(kf) < 2 THEN kf
  ELSE <<KF(kf[1].t, Px(kf[1].x) * Sub, Px(kf[1].y) * Sub, kf[1].w, kf[1].h, kf[1].z)>>
       \o Scan(LAMBDA st, i : SmoothKfStep(kf, st, i),
               [sx |-> kf[1].x, sy |-> kf[1].y, sz |-> kf[1].z], 2, Len(kf)).out

\* st is the keyframe pushed last
DeadzoneStep(kf, dzx, dzy, prev, i) ==
  LET cur == kf[i]
      nx == IF Abs(cur.x - prev.x) < dzx * Sub THEN prev.x ELSE cur.x
      ny == IF Abs(cur.y - prev.y) < dzy * Sub THEN prev.y ELSE cur.y
      nz == IF Abs(cur.z - prev.z) < DEADZONE_Z THEN prev.z ELSE cur.z
      new == KF(cur.t, nx, ny, cur.w, cur.h, nz)
  IN [st |-> new, out |-> <<new>>]

applyDeadzone(kf, dzx, dzy) ==
  IF Len(kf) < 2 THEN kf
  ELSE <<kf[1]>> \o Scan(LAMBDA prev, i : DeadzoneStep(kf, dzx, dzy, prev, i),
                         kf[1], 2, Len(kf)).out

\* a slip: the step taken whole, whatever the cap
stepToward_Uncapped(current, target, maxDelta) == target

stepToward(current, target, maxDelta) ==
  IF Abs(target - current) <= maxDelta THEN target
  ELSE IF target > current THEN current + maxDelta ELSE current - maxDelta

\* a rate per second times dt ticks
PerSecond(rate, dt) == MulDivTrunc(rate, dt, TicksPerSec)

PanStep(kf, maxPanPerSecond, prev, i) ==
  LET cur == kf[i]
      dt == Max(MinDt, cur.t - prev.t)
      maxDelta == PerSecond(Max(0, maxPanPerSecond) * Sub, dt)
      new == KF(cur.t, stepToward(prev.x, cur.x, maxDelta),
                stepToward(prev.y, cur.y, maxDelta), cur.w, cur.h, cur.z)
  IN [st |-> new, out |-> <<new>>]

applyPanLimits(kf, maxPanPerSecond) ==
  IF Len(kf) < 2 THEN kf
  ELSE <<kf[1]>> \o Scan(LAMBDA prev, i : PanStep(kf, maxPanPerSecond, prev, i),
                         kf[1], 2, Len(kf)).out

\* st is [prev, vx, vy]; velocities in 1 / Sub pixel per second
AccelStep(kf, maxAccelPerSecond, st, i) ==
  LET prev == st.prev
      cur == kf[i]
      dt == Max(MinDt, cur.t - prev.t)
      tx == ((cur.x - prev.x) * TicksPerSec) \div dt
      ty == ((cur.y - prev.y) * TicksPerSec) \div dt
      vx == stepToward(st.vx, tx, PerSecond(maxAccelPerSecond * Sub, dt))
      vy == stepToward(st.vy, ty, PerSecond(maxAccelPerSecond * Sub, dt))
      new == KF(cur.t, Px(prev.x + MulDivRound(vx, dt, TicksPerSec)) * Sub,
                Px(prev.y + MulDivRound(vy, dt, TicksPerSec)) * Sub,
                cur.w, cur.h, cur.z)
  IN [st |-> [prev |-> new, vx |-> vx, vy |-> vy], out |-> <<new>>]

applyAccelLimits(kf, maxAccelPerSecond) ==
  IF Len(kf) < 3 THEN kf
  ELSE <<kf[1]>> \o Scan(LAMBDA st, i : AccelStep(kf, maxAccelPerSecond, st, i),
                         [prev |-> kf[1], vx |-> 0, vy |-> 0], 2, Len(kf)).out

\* st is the keyframe pushed last; the influence is a fraction of easeTicks
EaseStep(kf, segStart, segEnd, easeTicks, prev, i) ==
  LET frame == kf[i]
      fromStart == Min(easeTicks, Max(0, frame.t - segStart))
      fromEnd == Min(easeTicks, Max(0, segEnd - frame.t))
      influence == Min(fromStart, fromEnd)
      new == KF(frame.t,
                Px(prev.x + MulDivRound(frame.x - prev.x, influence, easeTicks)) * Sub,
                Px(prev.y + MulDivRound(frame.y - prev.y, influence, easeTicks)) * Sub,
                frame.w, frame.h,
                prev.z + MulDivRound(frame.z - prev.z, influence, easeTicks))
  IN [st |-> new, out |-> <<new>>]

easeSegmentEdges(kf, segStart, segEnd, easeMs) ==
  IF Len(kf) = 0 \/ easeMs <= 0 THEN kf
  ELSE <<kf[1]>> \o Scan(LAMBDA prev, i :
                           EaseStep(kf, segStart, segEnd, easeMs * TicksPerMs, prev, i),
                         kf[1], 2, Len(kf)).out

\* a slip: the crop sized from the 9:16 width of the height, not capped by
\* the width of the source
applyScaledCoords_Uncapped(kf, baseW, baseH) ==
  LET targetW == TargetW(baseH)
      scaled(i) ==
        LET z == kf[i].z
            cropW == CropDim(targetW, z)
            cropH == CropDim(baseH, z)
            maxX == Max(0, baseW - cropW)
            maxY == Max(0, baseH - cropH)
        IN KF(kf[i].t, clamp(kf[i].x, 0, maxX * Sub), clamp(kf[i].y, 0, maxY * Sub),
              cropW, cropH, z)
  IN Build(scaled, 1, Len(kf))

applyScaledCoords(kf, baseW, baseH) ==
  LET targetW == Min(TargetW(baseH), baseW)
      scaled(i) ==
        LET z == kf[i].z
            cropW == CropDim(targetW, z)
            cropH == CropDim(baseH, z)
            maxX == Max(0, baseW - cropW)
            maxY == Max(0, baseH - cropH)
        IN KF(kf[i].t, clamp(kf[i].x, 0, maxX * Sub), clamp(kf[i].y, 0, maxY * Sub),
              cropW, cropH, z)
  IN Build(scaled, 1, Len(kf))

\* st is the time of the keyframe pushed last
DedupeStep(kf, minDelta, last, i) ==
  IF kf[i].t - last >= minDelta THEN [st |-> kf[i].t, out |-> <<kf[i]>>]
  ELSE [st |-> last, out |-> <<>>]

dedupeByTime(kf, minDelta) ==
  IF Len(kf) = 0 THEN kf
  ELSE <<kf[1]>> \o Scan(LAMBDA last, i : DedupeStep(kf, minDelta, last, i),
                         kf[1].t, 2, Len(kf)).out

----------------------------------------------------------------------------
(* computeCropMapPersonStatic, without a global crop *)

STATIC_BIAS_PCT == 35
STATIC_Z_FLOOR_PCT == 88

\* the k-th smallest element (k from 1) of a non-empty array: what the sorted
\* array holds at index k - 1
KthSmallest(vals, k) ==
  LET n == Len(vals)
      below(v) == Cardinality({j \in 1..n : vals[j] < v})
      upto(v) == Cardinality({j \in 1..n : vals[j] <= v})
      i == CHOOSE j \in 1..n : below(vals[j]) < k /\ k <= upto(vals[j])
  IN vals[i]

\* median of the sorted array, for a non-empty one
median(vals) ==
  LET n == Len(vals)
  IN IF n % 2 = 0
     THEN (KthSmallest(vals, n \div 2) + KthSmallest(vals, n \div 2 + 1)) \div 2
     ELSE KthSmallest(vals, n \div 2 + 1)

\* the centre x of the anchor of every snapshot that has detections
AnchorCentersX(sn, baseW, baseH) ==
  LET with == SelectSeq(sn, LAMBDA snap : Len(snap.dets) > 0)
  IN Build(LAMBDA i : LET a == chooseAnchor(with[i].dets, baseW, baseH)
                      IN a.x * Sub + (a.w * Sub) \div 2,
           1, Len(with))

Null == [kind |-> "null"]
Threw == [kind |-> "threw"]
Returned(kf) == [kind |-> "kfs", kf |-> kf]

\* Math.max(evenTargetW / baseW, 1.0, 0.88), in 1 / ZScale
StaticZMin(baseW, baseH) ==
  Max(Max(RoundDiv(((Min(TargetW(baseH), baseW) \div 2) * 2) * ZScale, baseW), ZScale),
      (STATIC_Z_FLOOR_PCT * ZScale) \div 100)

StaticKeyframe(inp, baseW, baseH, medianCx) ==
  LET rawTargetW == Min(TargetW(baseH), baseW)
      evenTargetW == (rawTargetW \div 2) * 2
      zMin == StaticZMin(baseW, baseH)
      frameCenterX == (baseW * Sub) \div 2
      direction == IF medianCx > frameCenterX THEN 1
                   ELSE IF medianCx < frameCenterX THEN -1 ELSE 0
      bias == Pct(evenTargetW * Sub, STATIC_BIAS_PCT)
      biasedCenterX == medianCx - direction * bias
      cropX == Px(biasedCenterX - (evenTargetW * Sub) \div 2)
      maxX == baseW - evenTargetW
      cropXFinal == IF Max(0, cropX) > maxX THEN maxX ELSE Max(0, cropX)
  IN KF(inp.segStart, cropXFinal * Sub, 0, evenTargetW, baseH, zMin)

\* a slip: the frame centre taken when there is no anchor at all
computeCropMapPersonStatic_Centered(inp, baseW, baseH, sn) ==
  LET centers == AnchorCentersX(sn, baseW, baseH)
  IN IF Len(sn) = 0 THEN Null
     ELSE IF Len(centers) = 0
     THEN Returned(<<StaticKeyframe(inp, baseW, baseH, (baseW * Sub) \div 2)>>)
     ELSE Returned(<<StaticKeyframe(inp, baseW, baseH, median(centers))>>)

\* sn is what its own call of detectPersonsTimeline returned
computeCropMapPersonStatic(inp, baseW, baseH, sn) ==
  LET centers == AnchorCentersX(sn, baseW, baseH)
  IN IF Len(sn) = 0 THEN Null
     ELSE IF Len(centers) = 0 THEN Null
     ELSE Returned(<<StaticKeyframe(inp, baseW, baseH, median(centers))>>)

----------------------------------------------------------------------------
(* computeCropMap, statement by statement *)

SegFrames == {0, 5, 10, MaxFrames}
LongSegFrames == 21 * DEFAULT_SAMPLE_FPS        \* a 21 s segment
SegStarts == {0, 10 * FrameTicks}

\* mkdirFails: fs.mkdirSync of the frame directory throws (it is called
\* before the try of detectPersonsTimeline)
Segment(segStart, frames, script, words, cons, mkdirFails) ==
  [segStart |-> segStart, frames |-> frames, script |-> script, transcript |-> words,
   constraints |-> cons, mkdirFails |-> mkdirFails]

ShortSegments ==
  { Segment(s, n, sc, ws, c, FALSE) :
      s \in SegStarts, n \in SegFrames, sc \in Scripts, ws \in Transcripts,
      c \in ConstraintSets }

LongSegments ==
  { Segment(0, LongSegFrames, sc, <<>>, c, FALSE) :
      sc \in {"still", "walk"}, c \in {WorkerConstraints, BareConstraints} }

\* long enough for the track of the person who left to age out
HandoverFrames == 2 * MaxFrames + 2

HandoverSegments ==
  { Segment(0, HandoverFrames, HandoverScript, ws, c, FALSE) :
      ws \in Transcripts, c \in {WorkerConstraints, TestConstraints} }

FailingSegments ==
  { Segment(0, n, sc, <<>>, WorkerConstraints, TRUE) :
      n \in {0, MaxFrames}, sc \in {"none", "still"} }

\* detectPersonsTimeline throws: it returns [] for an empty segment before it
\* makes the frame directory
MkdirThrows(inp) == inp.frames > 0 /\ inp.mkdirFails

CropInit ==
  /\ base \in CropSources
  /\ tracks = <<>> /\ nextTrackId = 1 /\ frameIdx = 0
  /\ lastOp = "none" /\ prevTracks = <<>> /\ lastDets = <<>>
  /\ KfIdle
  /\ pc = "detect"
  /\ input \in ShortSegments \cup FailingSegments \cup HandoverSegments
               \cup (IF base.w > base.h THEN LongSegments ELSE {})
  /\ snaps = <<>>
  /\ personKf = None
  /\ cropMap = None
  /\ StaticIdle
  /\ SolverIdle
  /\ WorkerIdle

\* computeCropMapPerson returns null, or throws, and computeCropMap goes on to
\* its static fallback
PersonFails(how) ==
  /\ personKf' = how
  /\ pc' = "static"

\* a step of computeCropMapPerson that returns null on an empty result and
\* goes on to the step then otherwise
NullIfEmpty(result, then) ==
  IF Len(result) = 0 THEN PersonFails(Null)
  ELSE pc' = then /\ UNCHANGED personKf

Sampled(sn) ==
  /\ snaps' = sn
  /\ NullIfEmpty(sn, "tracks")

\* const snaps = await detectPersonsTimeline(...); if (snaps.length === 0) return null
DetectPersonsTimeline ==
  /\ pc = "detect"
  /\ IF MkdirThrows(input)
     THEN PersonFails(Threw) /\ UNCHANGED snaps
     ELSE Sampled(detectPersonsTimeline(input, base))
  /\ UNCHANGED <<solverVars, workerVars, staticVars, base, trackVars, kfVars, input, cropMap>>

Tracked(timeline) ==
  /\ snaps' = timeline
  /\ NullIfEmpty(timeline, "raw")

\* const tracksTimeline = buildTracks(snaps, ...); if (length === 0) return null
BuildTracks ==
  /\ pc = "tracks"
  /\ Tracked(buildTracks(snaps, base))
  /\ UNCHANGED <<solverVars, workerVars, staticVars, base, trackVars, kfVars, input, cropMap>>

Keyframes(kf, then) ==
  /\ kfIn' = kf
  /\ NullIfEmpty(kf, then)

\* const turns = buildSpeakerTurns(...); const raw = computeGlobalCropKeyframes...(...)
RawKeyframes ==
  /\ pc = "raw"
  /\ Keyframes(computeGlobalCropKeyframes(
                 snaps, buildSpeakerTurns(input.transcript, input.segStart, SegEnd(input)),
                 base.w, base.h, input.constraints),
               "smooth")
  /\ UNCHANGED <<solverVars, workerVars, staticVars, base, trackVars, maxKeyframes, expr, filter, compressed,
                 input, snaps, cropMap>>

\* one of the stages from the raw keyframes to the deduplicated ones
Stage(at, out, then) ==
  /\ pc = at
  /\ kfIn' = out
  /\ pc' = then
  /\ UNCHANGED <<solverVars, workerVars, staticVars, base, trackVars, maxKeyframes, expr, filter, compressed,
                 input, snaps, personKf, cropMap>>

SmoothKeyframes == Stage("smooth", smoothKeyframes(kfIn), "deadzone")
ApplyDeadzone == Stage("deadzone", applyDeadzone(kfIn, DEADZONE_X, DEADZONE_Y), "pan")
ApplyPanLimits == Stage("pan", applyPanLimits(kfIn, input.constraints.maxPan), "accel")
ApplyAccelLimits == Stage("accel", applyAccelLimits(kfIn, MAX_ACCEL), "ease")
EaseSegmentEdges ==
  Stage("ease", easeSegmentEdges(kfIn, input.segStart, SegEnd(input),
                                 input.constraints.easeMs), "scale")
ApplyScaledCoords == Stage("scale", applyScaledCoords(kfIn, base.w, base.h), "dedupe")

\* const deduped = ...; if (deduped.length === 0) return null
DedupeByTime ==
  /\ pc = "dedupe"
  /\ Keyframes(IF Len(kfIn) > 0 THEN dedupeByTime(kfIn, DEDUPE_MIN_DELTA) ELSE <<>>,
               "compress")
  /\ UNCHANGED <<solverVars, workerVars, staticVars, base, trackVars, maxKeyframes, expr, filter, compressed,
                 input, snaps, cropMap>>

\* computeCropMapPerson returns out, and computeCropMap returns it too when it
\* is not empty
PersonReturns(out) ==
  /\ compressed' = Returned(out)
  /\ personKf' = Returned(out)
  /\ IF Len(out) > 0
     THEN cropMap' = Returned(out) /\ pc' = "done"
     ELSE pc' = "static" /\ UNCHANGED cropMap

\* const compressed = compressCropMap(deduped, 120); return compressed
CompressAndReturn ==
  /\ pc = "compress"
  /\ maxKeyframes' = COMPRESS_MAX_KEYFRAMES
  /\ PersonReturns(compressCropMap(kfIn, COMPRESS_MAX_KEYFRAMES))
  /\ UNCHANGED <<solverVars, workerVars, staticVars, base, trackVars, kfIn, expr, filter, input, snaps>>

\* a slip: what the static path gave is passed on as it is, a throw included
StaticReturns_Unguarded(staticKf) == cropMap' = staticKf

\* if (staticKf && staticKf.length > 0) return staticKf, else null
StaticReturns(staticKf) ==
  cropMap' = IF staticKf.kind = "kfs" /\ Len(staticKf.kf) > 0 THEN staticKf ELSE Null

\* the second try of computeCropMap: computeCropMapPersonStatic(input,
\* constraints, null), which samples the segment again
StaticFallback ==
  /\ pc = "static"
  /\ StaticReturns(IF MkdirThrows(input) THEN Threw
                   ELSE computeCropMapPersonStatic(input, base.w, base.h,
                                                   detectPersonsTimeline(input, base)))
  /\ pc' = "done"
  /\ UNCHANGED <<solverVars, workerVars, staticVars, base, trackVars, kfVars, input, snaps, personKf>>

CropNext ==
  \/ DetectPersonsTimeline \/ BuildTracks \/ RawKeyframes
  \/ SmoothKeyframes \/ ApplyDeadzone \/ ApplyPanLimits \/ ApplyAccelLimits
  \/ EaseSegmentEdges \/ ApplyScaledCoords \/ DedupeByTime \/ CompressAndReturn
  \/ StaticFallback

SpecCrop == CropInit /\ [][CropNext]_vars

----------------------------------------------------------------------------
(* Properties of the crop map *)

\* the keyframes computeCropMapPerson returned, none while it has not returned
\* any
PersonKeyframes == IF personKf.kind = "kfs" THEN personKf.kf ELSE <<>>

InsideSource(k) ==
  /\ 0 <= k.x
  /\ 0 <= k.y
  /\ k.x + k.w * Sub <= base.w * Sub
  /\ k.y + k.h * Sub <= base.h * Sub

\* C1: every keyframe k of a sequence returned by computeCropMapPerson for a
\* source of size baseW x baseH satisfies 0 <= k.x, 0 <= k.y,
\* k.x + k.w <= baseW and k.y + k.h <= baseH.
C1_KeyframesInsideSource ==
  \A i \in 1..Len(PersonKeyframes) : InsideSource(PersonKeyframes[i])

\* C1 witness: a returned sequence of several keyframes, one of them zoomed
\* in and moved down from the top edge, on a source narrower than 9:16
C1_Witness ==
  /\ Len(PersonKeyframes) >= 2
  /\ \E i \in 1..Len(PersonKeyframes) :
        LET k == PersonKeyframes[i]
        IN /\ InsideSource(k)
           /\ k.y > 0
           /\ k.z > ZScale
           /\ k.w < base.w

\* z >= max(floor(baseH * 9 / 16) / baseW, 1.0, Z_MIN)
AtLeastZMin(z) ==
  /\ z * base.w >= TargetW(base.h) * ZScale
  /\ z >= ZScale
  /\ z * 100 >= Z_MIN_PCT * ZScale

\* C2: every keyframe of a sequence returned by computeCropMapPerson has zoom
\* z >= zMin = max(floor(baseH * 9 / 16) / baseW, 1.0, Z_MIN), the first
\* sample included, whatever the source size.
C2_ZoomAtLeastZMin ==
  \A i \in 1..Len(PersonKeyframes) : AtLeastZMin(PersonKeyframes[i].z)

\* on sources at least as wide as the 9:16 target the floor is 1.0 and holds
C2_ZoomAtLeastOne ==
  \A i \in 1..Len(PersonKeyframes) : PersonKeyframes[i].z >= ZScale

\* C3: in every sequence returned by computeCropMapPerson the keyframe times
\* are strictly increasing and consecutive keyframes are at least 0.1 s apart,
\* also after compressCropMap filtered or decimated the sequence.
C3_TimesApart ==
  \A i \in 1..(Len(PersonKeyframes) - 1) :
     PersonKeyframes[i + 1].t - PersonKeyframes[i].t >= DEDUPE_MIN_DELTA

\* the deduplicated keyframes, before compressCropMap, are 0.1 s apart
C3_DedupedTimesApart ==
  pc = "compress" =>
    \A i \in 1..(Len(kfIn) - 1) : kfIn[i + 1].t - kfIn[i].t >= DEDUPE_MIN_DELTA

\* no sampled frame of the segment contains a detection: whatever the
\* detector reports is below MIN_DET_AREA and filtered out
NoDetections ==
  /\ input # None
  /\ \A i \in 0..(input.frames - 1) :
        FilterMinArea(Detections(input.script, base, i, input.frames)) = <<>>

\* C6: if no sampled frame of a segment contains any detection,
\* computeCropMapPerson returns null and computeCropMap returns null; neither
\* throws. The frames are sampled, that is, the frame directory could be made.
C6_NoDetectionsNull ==
  (NoDetections /\ ~MkdirThrows(input)) =>
    /\ personKf \in {None, Null}
    /\ cropMap \in {None, Null}
    /\ pc = "done" => (personKf = Null /\ cropMap = Null)

\* C6 witness: MaxFrames frames sampled, none with a detection, and both
\* functions have returned null
C6_Witness ==
  /\ NoDetections
  /\ ~MkdirThrows(input)
  /\ input.frames = MaxFrames
  /\ pc = "done"
  /\ personKf = Null
  /\ cropMap = Null

\* detectPersons throws on a frame of the segment on which it is called
DetectorFailsOnce ==
  /\ input # None
  /\ ~MkdirThrows(input)
  /\ input.frames > DETECT_EVERY
  /\ DetectPersonsThrows(input.script, DETECT_EVERY)

\* C15: when the detector throws on one sampled frame, that frame is treated
\* as having no detections and every other frame of the timeline is still
\* processed and returned: detectPersonsTimeline returns a snapshot for every
\* frame of the segment, so one failing frame never turns a segment with
\* detections into an empty timeline.
C15_FailingFrameKeepsTimeline ==
  (DetectorFailsOnce /\ pc # "detect") => Len(snaps) = input.frames

----------------------------------------------------------------------------
(* calculateCrop *)

STRONG_MIN_AREA_RATIO_PERMILLE == 8
STRONG_MIN_SCORE == 25
STRONG_MIN_COUNT == 8
TWO_SPEAKERS_MIN_SIDE_PCT == 18
VIDEO_CENTER_BLEND_PCT == 10
MAX_SHIFT_FROM_CENTER_PCT == 22

\* a FaceDetection: x, y, width, height in pixels, score in hundredths
Face(x, y, width, height, score) ==
  [x |-> x, y |-> y, width |-> width, height |-> height, score |-> score]

FaceCenterX(d) == d.x * Sub + (d.width * Sub) \div 2
FaceArea(d) == d.width * d.height

\* A pool of detections is an array of groups [det, n]: n detections equal to det.
RECURSIVE PoolSize(_)
PoolSize(pool) == IF pool = <<>> THEN 0 ELSE Head(pool).n + PoolSize(Tail(pool))

\* the WeightedValue[] of the pool: value the centre x, weight Math.max(area, 1)
\* of every detection of the group
CenterXValues(pool) ==
  [i \in 1..Len(pool) |->
     [value |-> FaceCenterX(pool[i].det),
      weight |-> Max(FaceArea(pool[i].det), 1) * pool[i].n]]

RECURSIVE SumWeight(_)
SumWeight(values) ==
  IF values = <<>> THEN 0 ELSE Head(values).weight + SumWeight(Tail(values))

\* values sorted by value: the k-th group in that order
SortedValue(values, k) ==
  LET n == Len(values)
      before(j) == Cardinality({m \in 1..n : \/ values[m].value < values[j].value
                                             \/ /\ values[m].value = values[j].value
                                                /\ m < j})
      i == CHOOSE j \in 1..n : before(j) = k - 1
  IN values[i]

\* the loop of weightedMedian over the sorted values: acc is the weight so far
RECURSIVE MedianLoop(_, _, _, _)
MedianLoop(values, k, acc, total) ==
  LET item == SortedValue(values, k)
  IN IF 2 * (acc + item.weight) >= total \/ k = Len(values) THEN item.value
     ELSE MedianLoop(values, k + 1, acc + item.weight, total)

weightedMedian(values) ==
  IF Len(values) = 0 THEN 0 ELSE MedianLoop(values, 1, 0, SumWeight(values))

MaxCropWidth(videoWidth, videoHeight) ==
  Min(RoundDiv(videoHeight * 9, 16), videoWidth)

\* the CropInfo returned; with it, of what calculateCrop logs, totalDetections and
\* centerFromFaces (in 1 / Sub pixel)
CropInfo(cropX, cropWidth, videoHeight, totalDetections, centerFromFaces) ==
  [cropX |-> cropX, cropY |-> 0, cropWidth |-> cropWidth, cropHeight |-> videoHeight,
   totalDetections |-> totalDetections, centerFromFaces |-> centerFromFaces]

StrongDetections(pool, frameArea) ==
  SelectSeq(pool, LAMBDA g :
    /\ g.det.score >= STRONG_MIN_SCORE
    /\ FaceArea(g.det) * 1000 >= STRONG_MIN_AREA_RATIO_PERMILLE * frameArea)

UsedDetections(pool, frameArea) ==
  IF PoolSize(StrongDetections(pool, frameArea)) >= STRONG_MIN_COUNT
  THEN StrongDetections(pool, frameArea)
  ELSE pool

FacesLeft(used) == SeqMin([i \in 1..Len(used) |-> used[i].det.x])
FacesRight(used) == SeqMax([i \in 1..Len(used) |-> used[i].det.x + used[i].det.width])

\* (facesLeft + facesRight) / 2, in 1 / Sub pixel
GroupCenterX(used) == ((FacesLeft(used) + FacesRight(used)) * Sub) \div 2

LeftCluster(values, groupCenterX) == SelectSeq(values, LAMBDA v : v.value <= groupCenterX)
RightCluster(values, groupCenterX) == SelectSeq(values, LAMBDA v : v.value > groupCenterX)

\* leftWeight / totalWeight >= 0.18 and rightWeight / totalWeight >= 0.18
HasTwoSides(leftWeight, rightWeight, totalWeight) ==
  /\ totalWeight > 0
  /\ leftWeight * 100 >= TWO_SPEAKERS_MIN_SIDE_PCT * totalWeight
  /\ rightWeight * 100 >= TWO_SPEAKERS_MIN_SIDE_PCT * totalWeight

\* a slip: the weighted median of all centres, whatever the sides hold
CenterFromFaces_MedianOnly(values, groupCenterX) == weightedMedian(values)

\* centerFromFaces, in 1 / Sub pixel
CenterFromFaces(values, groupCenterX) ==
  LET medianCenterX == weightedMedian(values)
      left == LeftCluster(values, groupCenterX)
      right == RightCluster(values, groupCenterX)
  IN IF /\ HasTwoSides(SumWeight(left), SumWeight(right), SumWeight(values))
        /\ Len(left) > 0 /\ Len(right) > 0
     THEN ((((weightedMedian(left) + weightedMedian(right)) \div 2) * 8)
           + medianCenterX * 2) \div 10
     ELSE (groupCenterX * 6 + medianCenterX * 4) \div 10

\* centerX before the clamp to the maximum shift, in 1 / Sub pixel
BlendedCenterX(centerFromFaces, videoWidth) ==
  (centerFromFaces * (100 - VIDEO_CENTER_BLEND_PCT)
   + ((videoWidth * Sub) \div 2) * VIDEO_CENTER_BLEND_PCT) \div 100

\* a slip: no limit on the shift from the centre
ShiftLimited_Unlimited(centerX, videoWidth) == centerX

\* centerX after the clamp to the maximum shift
ShiftLimited(centerX, videoWidth) ==
  LET videoCenterX == (videoWidth * Sub) \div 2
      maxShift == (videoWidth * Sub * MAX_SHIFT_FROM_CENTER_PCT) \div 100
      low == IF centerX < videoCenterX - maxShift THEN videoCenterX - maxShift ELSE centerX
  IN IF low > videoCenterX + maxShift THEN videoCenterX + maxShift ELSE low

\* a slip: the crop left where the rounded centre puts it
CropXOf_Unclamped(centerX, cropWidth, videoWidth) ==
  Px(centerX - (cropWidth * Sub) \div 2)

\* cropX of a centre: rounded, then kept inside the frame
CropXOf(centerX, cropWidth, videoWidth) ==
  LET cropX == Px(centerX - (cropWidth * Sub) \div 2)
      low == IF cropX < 0 THEN 0 ELSE cropX
  IN IF low + cropWidth > videoWidth THEN videoWidth - cropWidth ELSE low

\* the crop placed on centerFromFaces
PlacedCrop(videoWidth, videoHeight, totalDetections, centerFromFaces) ==
  CropInfo(CropXOf(ShiftLimited(BlendedCenterX(centerFromFaces, videoWidth), videoWidth),
                   MaxCropWidth(videoWidth, videoHeight), videoWidth),
           MaxCropWidth(videoWidth, videoHeight), videoHeight,
           totalDetections, centerFromFaces)

\* the centred crop returned for no detections at all
CenteredCrop(videoWidth, videoHeight) ==
  CropInfo(Max(0, (videoWidth - MaxCropWidth(videoWidth, videoHeight)) \div 2),
           MaxCropWidth(videoWidth, videoHeight), videoHeight, 0, 0)

UsedCenterFromFaces(used) == CenterFromFaces(CenterXValues(used), GroupCenterX(used))

calculateCrop(videoWidth, videoHeight, pool) ==
  IF PoolSize(pool) = 0 THEN CenteredCrop(videoWidth, videoHeight)
  ELSE PlacedCrop(videoWidth, videoHeight, PoolSize(pool),
                  UsedCenterFromFaces(UsedDetections(pool, videoWidth * videoHeight)))

----------------------------------------------------------------------------
(* detectFacesTimeline and computeGlobalStaticCrop *)

SAMPLE_DURATION_SEC == 15
MAX_SAMPLES == 6
MIN_SAMPLES == 3
MIN_DETECTIONS_REQUIRED == 50
FACE_MIN_SCORE == 30
GLOBAL_Z_FLOOR_PCT == 88

\* Math.ceil(duration * fps) for a window of sampleDurationSec
WindowFrames == SAMPLE_DURATION_SEC * DEFAULT_SAMPLE_FPS

\* numSamples, for a duration and a skipUntilSec in whole seconds (computed in tenths)
NumSamples(videoDurationSec, skipUntilSec) ==
  LET d == videoDurationSec * 10
      len == SAMPLE_DURATION_SEC * 10
      start0 == Max(Max(0, skipUntilSec * 10), videoDurationSec)
      usableStart == IF start0 > d - len THEN Max(0, d - len) ELSE start0
      end0 == videoDurationSec * 9
      usableEnd == IF end0 < usableStart + len THEN Min(d, usableStart + len) ELSE end0
      usableDuration == Max(len, usableEnd - usableStart)
  IN Min(MAX_SAMPLES, Max(MIN_SAMPLES, usableDuration \div len))

\* a slip: the skip is not read
UsableStart_NoSkip(videoDurationSec, skipUntilSec) ==
  LET d == videoDurationSec * TicksPerSec
      len == SAMPLE_DURATION_SEC * TicksPerSec
      start0 == d \div 10
  IN IF start0 > d - len THEN Max(0, d - len) ELSE start0

\* usableStart, in ticks, for a duration and a skipUntilSec in whole seconds
UsableStart(videoDurationSec, skipUntilSec) ==
  LET d == videoDurationSec * TicksPerSec
      len == SAMPLE_DURATION_SEC * TicksPerSec
      start0 == Max(Max(0, skipUntilSec * TicksPerSec), d \div 10)
  IN IF start0 > d - len THEN Max(0, d - len) ELSE start0

\* usableEnd, in ticks
UsableEnd(videoDurationSec, skipUntilSec) ==
  LET d == videoDurationSec * TicksPerSec
      len == SAMPLE_DURATION_SEC * TicksPerSec
      usableStart == UsableStart(videoDurationSec, skipUntilSec)
      end0 == (d * 9) \div 10
  IN IF end0 < usableStart + len THEN Min(d, usableStart + len) ELSE end0

UsableDuration(videoDurationSec, skipUntilSec) ==
  Max(SAMPLE_DURATION_SEC * TicksPerSec,
      UsableEnd(videoDurationSec, skipUntilSec) - UsableStart(videoDurationSec, skipUntilSec))

\* t of the window of index i (from 0), in ticks
SampleT(videoDurationSec, skipUntilSec, i) ==
  LET n == NumSamples(videoDurationSec, skipUntilSec)
      usableStart == UsableStart(videoDurationSec, skipUntilSec)
      spare == UsableDuration(videoDurationSec, skipUntilSec) - SAMPLE_DURATION_SEC * TicksPerSec
  IN IF n = 1 THEN usableStart + spare \div 2
     ELSE usableStart + (i * spare) \div (n - 1)

\* sampleStart and sampleEnd of the window of index i, in ticks
SampleStart(videoDurationSec, skipUntilSec, i) ==
  Max(0, Min(SampleT(videoDurationSec, skipUntilSec, i),
             (videoDurationSec - SAMPLE_DURATION_SEC) * TicksPerSec))

SampleEnd(videoDurationSec, skipUntilSec, i) ==
  Min(SampleStart(videoDurationSec, skipUntilSec, i) + SAMPLE_DURATION_SEC * TicksPerSec,
      videoDurationSec * TicksPerSec)

\* the faces the footage holds, by the width of the source: a large face right
\* of the centre, a large face left of it, a small face at the far left, and a
\* face the detector is not sure of
FaceAt(b, cxPct, size, score) ==
  Face(clamp((b.w * cxPct) \div 100 - size \div 2, 0, b.w - size),
       b.h \div 2 - size \div 2, size, size, score)

SpeakerFace(b) == FaceAt(b, 83, (b.h * 20) \div 100, 90)
GuestFace(b) == FaceAt(b, 25, (b.h * 20) \div 100, 80)
SmallFace(b) == FaceAt(b, 20, (b.h * 9) \div 100, 60)
FaintFace(b) == FaceAt(b, 50, (b.h * 20) \div 100, 22)
\* the large face on the right, as it is found a few pixels off
NearSpeakerFace(b) == [SpeakerFace(b) EXCEPT !.x = SpeakerFace(b).x - 6]

\* what a sampled window shows
WindowKinds == {"throws", "empty", "speaker", "guest", "crowd", "glitch", "faint"}

\* extractFrames (or the frame directory) fails for the whole window
SamplingThrows(kind) == kind = "throws"

\* detectFacesInImage fails on frame i of the window
DetectorThrows(kind, i) == kind = "glitch" /\ i % 12 = 0

\* the faces detectFacesInImage finds in frame i of the window
FacesInFrame(kind, b, i) ==
  IF kind = "speaker" /\ i % 12 = 0 THEN <<SpeakerFace(b)>>
  ELSE IF kind = "guest" /\ i % 11 = 0 THEN <<GuestFace(b)>>
  ELSE IF kind = "crowd" /\ i % 9 = 0 THEN <<SmallFace(b)>>
  ELSE IF kind = "glitch" /\ i % 6 = 0 THEN <<NearSpeakerFace(b)>>
  ELSE IF kind = "faint" /\ i % 2 = 0 THEN <<FaintFace(b)>>
  ELSE <<>>

\* what frame i adds to out: the detections with score >= 0.3, none when the
\* detector failed on the frame
FrameDetections(kind, b, i) ==
  IF DetectorThrows(kind, i) THEN <<>>
  ELSE SelectSeq(FacesInFrame(kind, b, i), LAMBDA d : d.score >= FACE_MIN_SCORE)

FaceKinds(b) ==
  <<SpeakerFace(b), GuestFace(b), SmallFace(b), FaintFace(b), NearSpeakerFace(b)>>

\* the frames of a window whose detections hold d
FramesWith(kind, b, d) ==
  Cardinality({i \in 0..(WindowFrames - 1) :
                 SelectSeq(FrameDetections(kind, b, i), LAMBDA e : e = d) # <<>>})

\* detectFacesTimeline on one window that did not throw: [frames, dets], frames
\* the length of out (one entry per frame, failed or not) and dets its
\* detections, grouped
detectFacesTimeline(kind, b) ==
  [frames |-> WindowFrames,
   dets |-> SelectSeq([k \in 1..Len(FaceKinds(b)) |->
                         [det |-> FaceKinds(b)[k],
                          n |-> FramesWith(kind, b, FaceKinds(b)[k])]],
                      LAMBDA g : g.n > 0)]

\* allDetections.push(det) for every detection of the window
RECURSIVE PushAll(_, _)
PushAll(pool, dets) ==
  IF dets = <<>> THEN pool
  ELSE LET g == Head(dets)
           same == {i \in 1..Len(pool) : pool[i].det = g.det}
       IN IF same = {} THEN PushAll(Append(pool, g), Tail(dets))
          ELSE PushAll([i \in 1..Len(pool) |->
                          IF i \in same THEN [pool[i] EXCEPT !.n = pool[i].n + g.n]
                          ELSE pool[i]],
                       Tail(dets))

\* landscape, and a source narrower than 9:16 of its height
StaticSources == {[w |-> 1920, h |-> 1080], [w |-> 320, h |-> 720]}

\* videos of 20 s and 80 s, with nothing skipped or an intro of 30 s skipped:
\* the windows of a video are as many as NumSamples says
VideosOf(d, sk, kinds) ==
  { [durationSec |-> d, skipUntilSec |-> sk, windows |-> ws] :
      ws \in [1..NumSamples(d, sk) -> kinds] }

\* durations below, at and above one window and up to the most windows, and
\* skips of nothing, of an intro, and of more than the video leaves a window for
SampledDurations == {10, 15, 20, 80, 200}
SampledSkips == {0, 5, 30, 70, 250}

\* three windows of any kind, or four windows of the plainer kinds; and every
\* duration with every skip on footage of one kind
Videos ==
  VideosOf(20, 0, WindowKinds) \cup VideosOf(80, 30, WindowKinds)
    \cup VideosOf(80, 0, {"throws", "empty", "speaker", "crowd"})
    \cup UNION { VideosOf(d, sk, {"speaker"}) : d \in SampledDurations, sk \in SampledSkips }

\* Math.max(finalCropW / baseW, 1.0, 0.88), in 1 / ZScale
GlobalZMin(finalCropW, baseW) ==
  Max(Max(RoundDiv(finalCropW * ZScale, baseW), ZScale), (GLOBAL_Z_FLOOR_PCT * ZScale) \div 100)

\* what computeGlobalStaticCrop returns once its windows are sampled
GlobalCropOf(cropResult, baseW) ==
  [kind |-> "crop", cropX |-> cropResult.cropX, cropY |-> cropResult.cropY,
   cropW |-> (cropResult.cropWidth \div 2) * 2, cropH |-> cropResult.cropHeight,
   zMin |-> GlobalZMin((cropResult.cropWidth \div 2) * 2, baseW)]

StaticInit ==
  /\ base \in StaticSources
  /\ tracks = <<>> /\ nextTrackId = 1 /\ frameIdx = 0
  /\ lastOp = "none" /\ prevTracks = <<>> /\ lastDets = <<>>
  /\ KfIdle
  /\ CropIdle
  /\ SolverIdle
  /\ WorkerIdle
  /\ video \in Videos
  /\ sampleIdx = 0
  /\ faces = <<>>
  /\ faceFrames = 0
  /\ cropInfo = None
  /\ staticCrop = None

\* the detections of a sampled window are pushed
WindowSampled(frames) ==
  /\ faces' = PushAll(faces, frames.dets)
  /\ faceFrames' = frames.frames

\* one iteration of the loop over the windows: the try and its catch
SampleWindow ==
  /\ staticCrop = None
  /\ sampleIdx < Len(video.windows)
  /\ IF SamplingThrows(video.windows[sampleIdx + 1])
     THEN UNCHANGED faces /\ faceFrames' = 0
     ELSE WindowSampled(detectFacesTimeline(video.windows[sampleIdx + 1], base))
  /\ sampleIdx' = sampleIdx + 1
  /\ UNCHANGED <<solverVars, workerVars, base, trackVars, kfVars, cropVars, video, cropInfo, staticCrop>>

\* a slip: a window that failed makes the whole result null
ReturnGlobalCrop_FailedWindowNull ==
  /\ staticCrop = None
  /\ sampleIdx = Len(video.windows)
  /\ IF \/ PoolSize(faces) < MIN_DETECTIONS_REQUIRED
        \/ \E i \in 1..Len(video.windows) : SamplingThrows(video.windows[i])
     THEN staticCrop' = Null /\ UNCHANGED cropInfo
     ELSE /\ cropInfo' = calculateCrop(base.w, base.h, faces)
          /\ staticCrop' = GlobalCropOf(cropInfo', base.w)
  /\ UNCHANGED <<solverVars, workerVars, base, trackVars, kfVars, cropVars, video, sampleIdx, faces, faceFrames>>

\* after the loop: null for too few detections, else the crop of calculateCrop
ReturnGlobalCrop ==
  /\ staticCrop = None
  /\ sampleIdx = Len(video.windows)
  /\ IF PoolSize(faces) < MIN_DETECTIONS_REQUIRED
     THEN staticCrop' = Null /\ UNCHANGED cropInfo
     ELSE /\ cropInfo' = calculateCrop(base.w, base.h, faces)
          /\ staticCrop' = GlobalCropOf(cropInfo', base.w)
  /\ UNCHANGED <<solverVars, workerVars, base, trackVars, kfVars, cropVars, video, sampleIdx, faces, faceFrames>>

\* calculateCrop on the detections pooled so far, whatever their number
CalculateCrop ==
  /\ staticCrop = None
  /\ cropInfo = None
  /\ cropInfo' = calculateCrop(base.w, base.h, faces)
  /\ UNCHANGED <<solverVars, workerVars, base, trackVars, kfVars, cropVars, video, sampleIdx, faces, faceFrames,
                 staticCrop>>

StaticNext == SampleWindow \/ ReturnGlobalCrop \/ CalculateCrop

SpecStatic == StaticInit /\ [][StaticNext]_vars

----------------------------------------------------------------------------
(* Properties of the static crop *)

RectInsideSource(cropX, cropY, cropW, cropH) ==
  /\ 0 <= cropX
  /\ cropX + cropW <= base.w
  /\ cropY = 0
  /\ cropH = base.h

\* C11: for any pool of detections and any source size, the rectangle returned
\* by calculateCrop, and the one returned by computeGlobalStaticCrop, lies
\* inside the source frame: 0 <= cropX, cropX + cropW <= baseW, cropY = 0 and
\* cropH = baseH.
C11_StaticCropInsideSource ==
  /\ cropInfo # None =>
       RectInsideSource(cropInfo.cropX, cropInfo.cropY,
                        cropInfo.cropWidth, cropInfo.cropHeight)
  /\ (staticCrop # None /\ staticCrop # Null) =>
       RectInsideSource(staticCrop.cropX, staticCrop.cropY,
                        staticCrop.cropW, staticCrop.cropH)

\* a 1920 x 1080 source whose every detection is the one face centred right of
\* x = 1590: the crop is pulled right and ends left of the right edge
C11_Witness ==
  /\ base = [w |-> 1920, h |-> 1080]
  /\ staticCrop # None /\ staticCrop # Null
  /\ Len(faces) = 1 /\ FaceCenterX(faces[1].det) >= 1590 * Sub
  /\ staticCrop.cropX > (base.w - staticCrop.cropW) \div 2
  /\ staticCrop.cropX + staticCrop.cropW <= 1920
  /\ staticCrop.cropW = 608

\* the horizontal centre of a crop, in 1 / Sub pixel
CropCenterX(c) == c.cropX * Sub + (c.cropWidth * Sub) \div 2

\* C12: for any non-empty pool of detections, the horizontal centre of the crop
\* returned by calculateCrop is within 0.22 * baseW of the frame centre, up to
\* one pixel of rounding.
C12_CenterWithinMaxShift ==
  (cropInfo # None /\ cropInfo.totalDetections > 0) =>
    Abs(CropCenterX(cropInfo) - (base.w * Sub) \div 2)
      <= (base.w * Sub * MAX_SHIFT_FROM_CENTER_PCT) \div 100 + Sub

\* the faces pull the centre further than the limit, and the crop stops at it
C12_Witness ==
  /\ cropInfo # None /\ cropInfo.totalDetections > 0
  /\ BlendedCenterX(cropInfo.centerFromFaces, base.w)
       > (base.w * Sub) \div 2 + (base.w * Sub * MAX_SHIFT_FROM_CENTER_PCT) \div 100
  /\ Abs(CropCenterX(cropInfo) - (base.w * Sub) \div 2)
       >= (base.w * Sub * MAX_SHIFT_FROM_CENTER_PCT) \div 100 - Sub

\* the pool cropInfo was computed from is the pool as it is now
CropOfPool == cropInfo # None /\ faces # <<>> /\ cropInfo.totalDetections = PoolSize(faces)

\* the crop centre before the clamp to the maximum shift, in 1 / Sub pixel
CenterBeforeClamp == BlendedCenterX(cropInfo.centerFromFaces, base.w)

\* detections within 2% of the frame width of each other form one tight cluster
TightSpread(b) == (b.w * Sub * 2) \div 100

IsTight(values) ==
  \A i, j \in 1..Len(values) : Abs(values[i].value - values[j].value) <= TightSpread(base)

LeftOfCenter(values) == SelectSeq(values, LAMBDA v : v.value < (base.w * Sub) \div 2)
RightOfCenter(values) == SelectSeq(values, LAMBDA v : v.value > (base.w * Sub) \div 2)

\* two tight clusters on opposite sides of the frame centre, each holding at
\* least 18% of the total area weight
TwoClusters(values) ==
  /\ LeftOfCenter(values) # <<>> /\ RightOfCenter(values) # <<>>
  /\ Len(LeftOfCenter(values)) + Len(RightOfCenter(values)) = Len(values)
  /\ IsTight(LeftOfCenter(values)) /\ IsTight(RightOfCenter(values))
  /\ HasTwoSides(SumWeight(LeftOfCenter(values)), SumWeight(RightOfCenter(values)),
                 SumWeight(values))

\* (a) one tight cluster: the centre is on the cluster, blended towards the frame centre
C13_SingleClusterCentre ==
  (CropOfPool /\ IsTight(CenterXValues(faces))) =>
    /\ BlendedCenterX(FacesLeft(faces) * Sub, base.w) <= CenterBeforeClamp
    /\ CenterBeforeClamp <= BlendedCenterX(FacesRight(faces) * Sub, base.w)

\* (b) two clusters: the centre is between the clusters and nearer to the
\* midpoint of their weighted medians than to any detection of either
C13_TwoClusterCentre ==
  (CropOfPool /\ TwoClusters(CenterXValues(faces))) =>
    LET values == CenterXValues(faces)
        mid == (weightedMedian(LeftOfCenter(values))
                + weightedMedian(RightOfCenter(values))) \div 2
    IN /\ \A i \in 1..Len(values) :
            Abs(CenterBeforeClamp - mid) < Abs(CenterBeforeClamp - values[i].value)
       /\ \A i \in 1..Len(LeftOfCenter(values)) :
            LeftOfCenter(values)[i].value <= CenterBeforeClamp
       /\ \A i \in 1..Len(RightOfCenter(values)) :
            CenterBeforeClamp <= RightOfCenter(values)[i].value

\* C13: in calculateCrop, (a) when all detections are clustered tightly around
\* one point the crop centre before clamping lies on that cluster (blended 10%
\* toward the frame centre); (b) when the detections form two clusters on
\* opposite sides of the frame centre, each with at least 18% of the area
\* weight, the crop centre before clamping lies between them and is closer to
\* the midpoint of the clusters' weighted medians than to either cluster.
C13_CentreOnClusters == C13_SingleClusterCentre /\ C13_TwoClusterCentre

\* the centres calculateCrop works on: of the strong detections when at least
\* 8 are strong, of all detections otherwise
UsedValues == CenterXValues(UsedDetections(faces, base.w * base.h))

\* the midpoint of the horizontal extent of the used detections separates the clusters
SplitAtGroupCenter(values, groupCenterX) ==
  /\ LeftCluster(values, groupCenterX) = LeftOfCenter(values)
  /\ RightCluster(values, groupCenterX) = RightOfCenter(values)

\* (b) restated over the detections calculateCrop uses: two clusters of them on
\* opposite sides of the frame centre and of the midpoint of their horizontal
\* extent, each with at least 18% of their area weight
C13_UsedTwoClusterCentre ==
  (/\ CropOfPool
   /\ TwoClusters(UsedValues)
   /\ SplitAtGroupCenter(UsedValues, GroupCenterX(UsedDetections(faces, base.w * base.h)))) =>
    LET mid == (weightedMedian(LeftOfCenter(UsedValues))
                + weightedMedian(RightOfCenter(UsedValues))) \div 2
    IN /\ \A i \in 1..Len(UsedValues) :
            Abs(CenterBeforeClamp - mid) < Abs(CenterBeforeClamp - UsedValues[i].value)
       /\ \A i \in 1..Len(LeftOfCenter(UsedValues)) :
            LeftOfCenter(UsedValues)[i].value <= CenterBeforeClamp
       /\ \A i \in 1..Len(RightOfCenter(UsedValues)) :
            CenterBeforeClamp <= RightOfCenter(UsedValues)[i].value

\* C13, as the code has it: (a) as stated; (b) for two clusters of the
\* detections calculateCrop uses (the strong ones when at least 8 are strong).
C13_CentreOnUsedClusters == C13_SingleClusterCentre /\ C13_UsedTwoClusterCentre

\* two large faces on opposite sides, among smaller ones that are left out: the
\* centre is strictly between the two
C13_Witness ==
  /\ CropOfPool
  /\ base.w = 1920
  /\ Len(UsedValues) < Len(faces)
  /\ TwoClusters(UsedValues)
  /\ SplitAtGroupCenter(UsedValues, GroupCenterX(UsedDetections(faces, base.w * base.h)))
  /\ \A i \in 1..Len(LeftOfCenter(UsedValues)) :
       LeftOfCenter(UsedValues)[i].value < CenterBeforeClamp
  /\ \A i \in 1..Len(RightOfCenter(UsedValues)) :
       CenterBeforeClamp < RightOfCenter(UsedValues)[i].value

\* the detections in the frames of one window, counted frame by frame
DetectionsOfWindow(kind) ==
  Cardinality({p \in (0..(WindowFrames - 1)) \X (1..Len(FaceKinds(base))) :
                 p[2] <= Len(FrameDetections(kind, base, p[1]))})

\* the detections of the first k windows, a window that threw counting for none
RECURSIVE DetectionsOfWindows(_)
DetectionsOfWindows(k) ==
  IF k = 0 THEN 0
  ELSE (IF SamplingThrows(video.windows[k]) THEN 0
        ELSE DetectionsOfWindow(video.windows[k]))
       + DetectionsOfWindows(k - 1)

\* C14: computeGlobalStaticCrop returns null exactly when the detections
\* aggregated over all sampled windows are fewer than 50; a window whose
\* sampling throws contributes no detection, does not keep the later windows
\* from being sampled, and does not by itself make the result null.
C14_NullIffTooFewDetections ==
  staticCrop # None =>
    /\ sampleIdx = Len(video.windows)
    /\ PoolSize(faces) = DetectionsOfWindows(Len(video.windows))
    /\ staticCrop = Null <=> PoolSize(faces) < MIN_DETECTIONS_REQUIRED

\* the first window throws, the later ones hold enough detections: a crop is returned
C14_Witness ==
  /\ staticCrop # None /\ staticCrop # Null
  /\ SamplingThrows(video.windows[1])
  /\ PoolSize(faces) >= MIN_DETECTIONS_REQUIRED
  /\ PoolSize(faces) = DetectionsOfWindows(Len(video.windows))

\* 49 detections are too few, 50 are enough
C14_WitnessBoundary ==
  \/ staticCrop = Null /\ PoolSize(faces) = MIN_DETECTIONS_REQUIRED - 1
  \/ staticCrop # None /\ staticCrop # Null /\ PoolSize(faces) = MIN_DETECTIONS_REQUIRED

\* the same for detectFacesTimeline: a window in which the detector fails on
\* some frames still returns every frame, and the detections of the others
C15_FaceTimelineKeepsFrames ==
  (/\ video # None /\ sampleIdx > 0
   /\ \E i \in 0..(WindowFrames - 1) : DetectorThrows(video.windows[sampleIdx], i)) =>
    /\ faceFrames = WindowFrames
    /\ \E k \in 1..Len(faces) : faces[k].det = NearSpeakerFace(base)

\* C16: for every source size the zoom floor computed by the dynamic path
\* (computeGlobalCropKeyframesFromTracksWithSpeechAndZoom), by the per-segment
\* static path (computeCropMapPersonStatic), by computeGlobalStaticCrop and by
\* the validator in buildFFmpegFilter is the same value, equal to
\* max(targetW / baseW, 1.0, configuredFloor).
C16_SameZoomFloor ==
  (staticCrop # None /\ staticCrop # Null) =>
    /\ staticCrop.zMin = ZMin(TargetW(base.h), base.w)
    /\ StaticZMin(base.w, base.h) = ZMin(TargetW(base.h), base.w)
    /\ ValidatorZMin(base.w, base.h) = ZMin(TargetW(base.h), base.w)

\* on a source at least as wide as 9:16 of its height the four floors are 1.0
C16_SameZoomFloorOnWideSources ==
  (staticCrop # None /\ staticCrop # Null /\ base.w >= TargetW(base.h)) =>
    /\ staticCrop.zMin = ZScale
    /\ ZMin(TargetW(base.h), base.w) = ZScale
    /\ StaticZMin(base.w, base.h) = ZScale
    /\ ValidatorZMin(base.w, base.h) = ZScale


----------------------------------------------------------------------------
(* Properties of the anchors and of the geometry of the keyframes *)

TurnsOf(words, inp) == buildSpeakerTurns(words, inp.segStart, SegEnd(inp))

\* what computeGlobalCropKeyframes derives from the group bounds: the times,
\* the feasible intervals, the group sizes and insets, and the zoom series
GeometryOf(anchors, f, targetW, baseW, baseH) ==
  [t |-> Build(LAMBDA i : anchors[i].t, 1, Len(anchors)),
   window |-> Build(LAMBDA i : [xL |-> f[i].xL, xU |-> f[i].xU,
                                yL |-> f[i].yL, yU |-> f[i].yU,
                                groupW |-> f[i].groupW, groupH |-> f[i].groupH,
                                insetX |-> f[i].insetX, insetY |-> f[i].insetY],
                    1, Len(anchors)),
   zs |-> solveZoomSeries(Build(LAMBDA i : [w |-> f[i].groupW, h |-> f[i].groupH,
                                            insetX |-> f[i].insetX,
                                            insetY |-> f[i].insetY],
                                1, Len(anchors)),
                          targetW, baseH, ZMin(targetW, baseW))]

GeometryOfAnchors(anchors, b, cons) ==
  GeometryOf(anchors,
             FeasibleWindows(anchors, SmoothedAnchors(anchors), TargetW(b.h),
                             b.w, b.h, cons),
             TargetW(b.h), b.w, b.h)

Geometry(timeline, words, inp, b) ==
  GeometryOfAnchors(Anchors(timeline, TurnsOf(words, inp), b), b, inp.constraints)

AnchorIds(timeline, words, inp, b) ==
  LET anchors == Anchors(timeline, TurnsOf(words, inp), b)
  IN Build(LAMBDA i : anchors[i].anchor.id, 1, Len(anchors))

\* the raw keyframes have just been computed from the track timeline in snaps
RawKeyframesComputed == pc = "smooth"

SameGeometry(g, kf) ==
  /\ g = Geometry(snaps, input.transcript, input, base)
  /\ g.zs = Build(LAMBDA i : kf[i].z, 1, Len(kf))

\* C17: for the track timeline, source and constraints of the segment, the
\* feasible intervals, group sizes, insets and zoom series are the same for
\* every transcript, and the zoom of the raw keyframes is that zoom series
C17_TurnsNeverConstrainGeometry ==
  RawKeyframesComputed =>
    \A words \in Transcripts : SameGeometry(Geometry(snaps, words, input, base), kfIn)

\* two transcripts that pick different anchors on the same track timeline
C17_Witness ==
  /\ RawKeyframesComputed
  /\ \E words \in Transcripts :
       AnchorIds(snaps, words, input, base) # AnchorIds(snaps, input.transcript, input, base)



----------------------------------------------------------------------------
(* Properties of the association and of the frames between detections *)

\* the matches of the last associateAndUpdate, as pairs <<ti, di>>
LastMatches ==
  LET m == Matches(lastPred, lastDets)
  IN {<<m[k].ti, m[k].di>> : k \in 1..Len(m)}

PairIou(pred, dets, p) == iouTrackDet(pred[p[1]], dets[p[2]])

\* the pairs of greatest IoU among the pairs of a set
BestPairs(pred, dets, free) ==
  {p \in free : \A q \in free : ~IouGt(PairIou(pred, dets, q), PairIou(pred, dets, p))}

\* every matching the global greedy rule can end with, one per way of breaking
\* a tie: take a free pair of greatest IoU while that IoU is at the threshold
RECURSIVE GreedyMatchings(_, _, _, _)
GreedyMatchings(pred, dets, usedT, usedD) ==
  LET free == {p \in (1..Len(pred)) \X (1..Len(dets)) :
                 p[1] \notin usedT /\ p[2] \notin usedD}
      best == BestPairs(pred, dets, free)
  IN IF free = {} \/ \A p \in best : ~IouGeThresh(PairIou(pred, dets, p)) THEN {{}}
     ELSE UNION { { {p} \cup m :
                     m \in GreedyMatchings(pred, dets, usedT \cup {p[1]},
                                           usedD \cup {p[2]}) } :
                  p \in best }

NoPairReused(ms) ==
  \A p \in ms : \A q \in ms : (p[1] = q[1] \/ p[2] = q[2]) => p = q

\* C18: the matches of associateAndUpdate are a global greedy matching (the
\* free pair of highest IoU first, while it is at TRACK_IOU_THRESH), and no
\* track and no detection is in more than one match
C18_GlobalGreedyMatching ==
  lastOp = "associate" =>
    /\ LastMatches \in GreedyMatchings(lastPred, lastDets, {}, {})
    /\ NoPairReused(LastMatches)

\* the part that holds: the matches are one to one, each at the threshold
C18_MatchesOneToOne ==
  lastOp = "associate" =>
    /\ NoPairReused(LastMatches)
    /\ \A p \in LastMatches : IouGeThresh(PairIou(lastPred, lastDets, p))



\* the last frame was one on which detection is skipped
SkippedDetection == (frameIdx - 1) % DETECT_EVERY # 0 /\ Len(prevTracks) > 0

\* track tr is prev track p moved: nothing but x, y, lastT, age and miss differs
OnlyMoved(tr, p) ==
  /\ tr.id = p.id /\ tr.hits = p.hits
  /\ tr.w = p.w /\ tr.h = p.h /\ tr.score = p.score
  /\ tr.vx = p.vx /\ tr.vy = p.vy /\ tr.vd = p.vd
  /\ tr.lastT = lastT
  /\ tr.miss > p.miss /\ tr.age - p.age = tr.miss - p.miss

\* C19: a frame of the timeline is advanced by predictOnly exactly when
\* detection is skipped on it (frameIdx % DETECT_EVERY # 0 and there are
\* tracks); then no track is created or matched and every surviving track
\* keeps its id, hits, width, height, score and velocity
C19_SkippedFramesOnlyPredict ==
  /\ lastOp # "none" => (lastOp = "predict" <=> SkippedDetection)
  /\ lastOp = "predict" =>
       /\ Len(tracks) <= Len(prevTracks)
       /\ \A j \in 1..Len(tracks) : \A k \in 1..Len(tracks) :
            tracks[j].id = tracks[k].id => j = k
       /\ \A k \in 1..Len(tracks) :
            /\ tracks[k].id < nextTrackId
            /\ \E ti \in 1..Len(prevTracks) : OnlyMoved(tracks[k], prevTracks[ti])

\* C19 witness: a skipped frame on which a moving track survives at a new
\* position while another track is aged out
C19_Witness ==
  /\ lastOp = "predict"
  /\ Len(tracks) < Len(prevTracks)
  /\ \E k \in 1..Len(tracks) : \E ti \in 1..Len(prevTracks) :
       /\ OnlyMoved(tracks[k], prevTracks[ti])
       /\ tracks[k].vx # 0
       /\ tracks[k].x # prevTracks[ti].x



----------------------------------------------------------------------------
(* The anchor of a frame, stated from the speaker mapping *)

\* the speaker -> track id record after the anchor loop
AnchorMap(timeline, turns, b) ==
  Scan(LAMBDA map, i : AnchorStep(timeline, turns, b, map, i),
       [l \in Labels |-> 0], 1, Len(timeline)).st

IsPresent(id, dets) == \E k \in 1..Len(dets) : dets[k].id = id

DetWithId(id, dets) == dets[CHOOSE k \in 1..Len(dets) : dets[k].id = id]

\* the first detection of greatest area x score x centrality
BestScored(dets, b) ==
  dets[CHOOSE k \in 1..Len(dets) :
         /\ \A j \in 1..Len(dets) :
              anchorScore(dets[j], b.w, b.h) <= anchorScore(dets[k], b.w, b.h)
         /\ \A j \in 1..(k - 1) :
              anchorScore(dets[j], b.w, b.h) < anchorScore(dets[k], b.w, b.h)]

\* the track id remembered for label l before frame i of the timeline, 0 for
\* none: the best scored detection of the last frame on which l was active and
\* its remembered track was not there
RECURSIVE MappedBefore(_, _, _, _, _)
MappedBefore(timeline, turns, b, l, i) ==
  IF i = 1 THEN 0
  ELSE LET prev == MappedBefore(timeline, turns, b, l, i - 1)
           snap == timeline[i - 1]
       IN IF /\ Len(snap.dets) > 0
             /\ activeSpeakerAt(snap.t, turns) = l
             /\ ~IsPresent(prev, snap.dets)
          THEN BestScored(snap.dets, b).id
          ELSE prev

\* the speaker anchors frame i on its remembered track
AnchoredOnSpeaker(timeline, turns, b, i) ==
  LET spk == activeSpeakerAt(timeline[i].t, turns)
  IN /\ spk # ""
     /\ IsPresent(MappedBefore(timeline, turns, b, spk, i), timeline[i].dets)

ExpectedAnchor(timeline, turns, b, i) ==
  IF AnchoredOnSpeaker(timeline, turns, b, i)
  THEN DetWithId(MappedBefore(timeline, turns, b,
                              activeSpeakerAt(timeline[i].t, turns), i),
                 timeline[i].dets)
  ELSE BestScored(timeline[i].dets, b)

\* the frames of the timeline with at least one alive track, in order
FramesWithTracks(timeline) ==
  SelectSeq([i \in 1..Len(timeline) |-> i], LAMBDA i : Len(timeline[i].dets) > 0)

ExpectedAnchors(anchors, timeline, turns, b, frames, kf) ==
  /\ Len(anchors) = Len(frames)
  /\ Len(kf) = Len(frames)
  /\ \A k \in 1..Len(frames) :
       /\ anchors[k].anchor = ExpectedAnchor(timeline, turns, b, frames[k])
       /\ anchors[k].t = timeline[frames[k]].t
       /\ kf[k].t = anchors[k].t

ExpectedMap(map, timeline, turns, b) ==
  \A l \in Labels :
     map[l] = IF turns = <<>> THEN 0
              ELSE MappedBefore(timeline, turns, b, l, Len(timeline) + 1)

\* C20: on every frame with an alive track the anchor is the track remembered
\* for the active speaker when that track is in the frame, and otherwise the
\* detection of greatest area x score x centrality, which is then remembered
\* for the active speaker if there is one
C20_AnchorFollowsSpeakerMapping ==
  RawKeyframesComputed =>
    /\ ExpectedAnchors(Anchors(snaps, TurnsOf(input.transcript, input), base),
                       snaps, TurnsOf(input.transcript, input), base,
                       FramesWithTracks(snaps), kfIn)
    /\ ExpectedMap(AnchorMap(snaps, TurnsOf(input.transcript, input), base),
                   snaps, TurnsOf(input.transcript, input), base)

\* frame i is anchored on the remembered track although another detection
\* scores higher
KeepsSpeaker(timeline, turns, b, i) ==
  /\ AnchoredOnSpeaker(timeline, turns, b, i)
  /\ ExpectedAnchor(timeline, turns, b, i) # BestScored(timeline[i].dets, b)

\* on frame i the remembered track of the active speaker is gone and the
\* speaker is mapped anew
Remapped(timeline, turns, b, i) ==
  LET spk == activeSpeakerAt(timeline[i].t, turns)
  IN /\ spk # ""
     /\ Len(timeline[i].dets) > 0
     /\ MappedBefore(timeline, turns, b, spk, i) # 0
     /\ MappedBefore(timeline, turns, b, spk, i + 1)
          # MappedBefore(timeline, turns, b, spk, i)

\* C20 witness: one timeline on which the anchor stays on the speaker's track
\* against a higher score, and on which that track later leaves and the speaker
\* is mapped to another
C20_Witness ==
  /\ RawKeyframesComputed
  /\ \E i \in 1..Len(snaps) :
       KeepsSpeaker(snaps, TurnsOf(input.transcript, input), base, i)
  /\ \E i \in 1..Len(snaps) :
       Remapped(snaps, TurnsOf(input.transcript, input), base, i)

\* a frame with alive tracks and no active speaker although there are turns
C20_WitnessNoActiveSpeaker ==
  /\ RawKeyframesComputed
  /\ TurnsOf(input.transcript, input) # <<>>
  /\ \E i \in 1..Len(snaps) :
       /\ Len(snaps[i].dets) > 1
       /\ activeSpeakerAt(snaps[i].t, TurnsOf(input.transcript, input)) = ""



----------------------------------------------------------------------------
(* globalOptimize1D, one iteration of its loop at a time *)

MaxOptIters == 4
OptLen == 3

\* what the frames of a short timeline show
OptGroups(b) ==
  { <<Person(b, 10, 90)>>, <<Person(b, 50, 80)>>, <<Person(b, 90, 70)>>,
    <<Person(b, 10, 70), Person(b, 90, 90)>> }

\* the anchors of the frames: the first detection, and the bounds of all
OptAnchors(frames) ==
  Build(LAMBDA i : [anchor |-> frames[i][1],
                    bounds |-> boundsToGroup(computeBounds(frames[i])),
                    t |-> i * FrameTicks],
        1, Len(frames))

OptWindows(b, cons, frames) ==
  FeasibleWindows(OptAnchors(frames), SmoothedAnchors(OptAnchors(frames)),
                  TargetW(b.h), b.w, b.h, cons)

\* the arguments of one call, on the x or on the y series of the windows
OptInput(f, axis, w, lambdaV, lambdaA, iters, lr) ==
  [des |-> Build(LAMBDA i : IF axis = "x" THEN f[i].xDes ELSE f[i].yDes, 1, Len(f)),
   L |-> Build(LAMBDA i : IF axis = "x" THEN f[i].xL ELSE f[i].yL, 1, Len(f)),
   U |-> Build(LAMBDA i : IF axis = "x" THEN f[i].xU ELSE f[i].yU, 1, Len(f)),
   w |-> w, lambdaV |-> lambdaV, lambdaA |-> lambdaA, iters |-> iters, lr |-> lr]

OptInputs(b) ==
  { OptInput(OptWindows(b, cons, frames), axis, w, lambdaV, lambdaA, iters, lr) :
      cons \in {WorkerConstraints, BareConstraints},
      frames \in [1..OptLen -> OptGroups(b)],
      axis \in {"x", "y"},
      w \in {[i \in 1..OptLen |-> 5], [i \in 1..OptLen |-> 50 * i * i - 40]},
      lambdaV \in {0, GLOB_LAMBDA_V},
      lambdaA \in {0, GLOB_LAMBDA_A},
      iters \in {1, MaxOptIters},
      lr \in {GLOB_LR_PCT, 100} }

OptimizeInit ==
  /\ base \in CropSources
  /\ tracks = <<>> /\ nextTrackId = 1 /\ frameIdx = 0
  /\ lastOp = "none" /\ prevTracks = <<>> /\ lastDets = <<>>
  /\ KfIdle
  /\ CropIdle
  /\ StaticIdle
  /\ WorkerIdle
  /\ optIn \in OptInputs(base)
  /\ optX = optIn.des
  /\ optIt = 0
  /\ optOut = None

\* one iteration of for (let it = 0; it < iters; it++)
GradientIteration ==
  /\ optOut = None
  /\ optIt < optIn.iters
  /\ optX' = GradientStepWith(optX, optIn.des, optIn.L, optIn.U, ClampedWeights(optIn.w),
                              optIn.lambdaV, optIn.lambdaA, optIn.lr)
  /\ optIt' = optIt + 1
  /\ UNCHANGED <<workerVars, staticVars, base, trackVars, kfVars, cropVars, optIn, optOut>>

\* return x
ReturnOptimized ==
  /\ optOut = None
  /\ optIt = optIn.iters
  /\ optOut' = Returned(optX)
  /\ UNCHANGED <<workerVars, staticVars, base, trackVars, kfVars, cropVars, optIn, optX, optIt>>

OptimizeNext == GradientIteration \/ ReturnOptimized

SpecOptimize == OptimizeInit /\ [][OptimizeNext]_vars

WithinFeasible(x) ==
  \A i \in 1..Len(x) : optIn.L[i] <= x[i] /\ x[i] <= optIn.U[i]

\* C21: the intervals of buildFeasible are not empty, and the series that
\* globalOptimize1D holds after every iteration, and the one it returns, lie in
\* them sample by sample, for every choice of weights, penalties, learning rate
\* and iteration count
C21_SeriesWithinFeasible ==
  optIn # None =>
    /\ \A i \in 1..Len(optIn.L) : optIn.L[i] <= optIn.U[i]
    /\ Len(optX) = Len(optIn.des)
    /\ WithinFeasible(optX)
    /\ optOut # None => optIt >= 1 /\ WithinFeasible(optOut.kf)

\* C21 witness: a returned series that a step has pushed onto the upper end of
\* an interval its desired value was strictly inside
C21_Witness ==
  /\ optOut # None
  /\ \E i \in 1..Len(optIn.des) :
       /\ optIn.L[i] < optIn.des[i] /\ optIn.des[i] < optIn.U[i]
       /\ optOut.kf[i] = optIn.U[i]



----------------------------------------------------------------------------
(* Properties of the returned keyframes and of the fallbacks *)

\* |b - a| is at most maxPan pixels per second over the time from ta to tb
WithinPan(a, b, ta, tb, maxPan) ==
  Abs(b - a) * (TicksPerSec \div Sub) <= maxPan * (tb - ta)

PanCapHolds(kf, maxPan) ==
  \A i \in 1..(Len(kf) - 1) :
     /\ WithinPan(kf[i].x, kf[i + 1].x, kf[i].t, kf[i + 1].t, maxPan)
     /\ WithinPan(kf[i].y, kf[i + 1].y, kf[i].t, kf[i + 1].t, maxPan)

\* C22: between two consecutive keyframes returned by computeCropMapPerson, x
\* and y change by at most constraints.maxPan times the elapsed time
C22_PanCapInReturnedKeyframes ==
  PanCapHolds(PersonKeyframes, input.constraints.maxPan)



\* applyPanLimits has just returned kfIn
PanLimited == pc = "accel"

\* the part that holds: in the sequence applyPanLimits returns, x and y change
\* between two consecutive keyframes by at most constraints.maxPan times the
\* elapsed time
C22_PanCapAfterPanLimits ==
  PanLimited => PanCapHolds(kfIn, input.constraints.maxPan)

\* a pan-limited sequence with a step that takes the whole cap
C22_CapTaken ==
  /\ PanLimited
  /\ \E i \in 1..(Len(kfIn) - 1) :
       /\ kfIn[i + 1].x # kfIn[i].x
       /\ Abs(kfIn[i + 1].x - kfIn[i].x)
            = PerSecond(input.constraints.maxPan * Sub, kfIn[i + 1].t - kfIn[i].t)

\* the cap on x, with one pixel of slack for the rounding of the later stages
PanCapHoldsRounded(kf, maxPan) ==
  \A i \in 1..(Len(kf) - 1) :
     (Abs(kf[i + 1].x - kf[i].x) - Sub) * (TicksPerSec \div Sub)
        <= maxPan * (kf[i + 1].t - kf[i].t)

C22_PanCapInReturnedKeyframesRounded ==
  PanCapHoldsRounded(PersonKeyframes, input.constraints.maxPan)



\* C23: a sequence of at most maxKeyframes keyframes is returned by
\* compressCropMap unchanged; near-duplicates are filtered, or the sequence is
\* decimated, only above the ceiling
C23_UnchangedAtOrBelowCeiling ==
  (compressed.kind = "kfs" /\ Len(kfIn) <= maxKeyframes) => compressed.kf = kfIn

\* what holds below the ceiling: the ends are kept, and what is between them
\* is a selection of the keyframes of the sequence, in order
C23_FilteredAtOrBelowCeiling ==
  (compressed.kind = "kfs" /\ Len(kfIn) <= maxKeyframes /\ Len(kfIn) > 2)
  => /\ compressed.kf = Filtered(kfIn)
     /\ compressed.kf[1] = kfIn[1]
     /\ compressed.kf[Len(compressed.kf)] = kfIn[Len(kfIn)]
     /\ Len(compressed.kf) <= Len(kfIn)

\* what holds above the ceiling: no keyframe is filtered as a near-duplicate,
\* the sequence is decimated to the ceiling
C23_DecimatedAboveCeiling ==
  (compressed.kind = "kfs" /\ Len(kfIn) > maxKeyframes /\ Len(kfIn) > 2)
  => Len(compressed.kf) = maxKeyframes



\* what computeCropMapPersonStatic(input, constraints, null) does for the segment
StaticOutcome ==
  IF MkdirThrows(input) THEN Threw
  ELSE computeCropMapPersonStatic(input, base.w, base.h, detectPersonsTimeline(input, base))

NonEmpty(r) == r.kind = "kfs" /\ Len(r.kf) > 0

computeCropMapReturned == input # None /\ pc = "done"

\* C24: computeCropMap never throws; it returns the keyframes of
\* computeCropMapPerson when they are a non-empty sequence, otherwise those of
\* computeCropMapPersonStatic when they are a non-empty sequence, otherwise null
C24_FallbackOrder ==
  /\ cropMap # Threw
  /\ computeCropMapReturned =>
       IF NonEmpty(personKf) THEN cropMap = personKf
       ELSE IF NonEmpty(StaticOutcome) THEN cropMap = StaticOutcome
       ELSE cropMap = Null

\* C24 witness: the dynamic path returned null and the static keyframe is returned
C24_Witness ==
  /\ computeCropMapReturned
  /\ personKf = Null
  /\ NonEmpty(cropMap)

\* both paths threw and null is returned
C24_WitnessBothThrew ==
  /\ computeCropMapReturned
  /\ personKf = Threw
  /\ StaticOutcome = Threw
  /\ cropMap = Null



----------------------------------------------------------------------------
(* Properties of the windows of computeGlobalStaticCrop *)

\* the windows the loop has sampled so far, by index
SampledWindows == IF video = None THEN {} ELSE 0..(sampleIdx - 1)

WindowStart(i) == SampleStart(video.durationSec, video.skipUntilSec, i)
WindowEnd(i) == SampleEnd(video.durationSec, video.skipUntilSec, i)

WindowInsideVideo(i) ==
  /\ 0 <= WindowStart(i)
  /\ WindowStart(i) <= WindowEnd(i)
  /\ WindowEnd(i) <= video.durationSec * TicksPerSec

\* the skip leaves room for a window of sampleDurationSec before the end
SkipLeavesWindow ==
  video.skipUntilSec <= Max(0, video.durationSec - SAMPLE_DURATION_SEC)

\* C26: every window sampled by computeGlobalStaticCrop starts at or after
\* skipUntilSec and lies inside [0, videoDurationSec], for every duration and skip
C26_WindowsAfterSkipInsideVideo ==
  \A i \in SampledWindows :
    /\ WindowStart(i) >= video.skipUntilSec * TicksPerSec
    /\ WindowInsideVideo(i)

\* C26, as the code has it: every sampled window lies inside [0, videoDurationSec];
\* it starts at or after skipUntilSec when the skip leaves room for a window
\* before the end of the video, and otherwise at the start of the last
\* sampleDurationSec of the video (at 0 when the video is shorter)
C26_WindowsInsideVideoAfterSkipIfRoom ==
  \A i \in SampledWindows :
    /\ WindowInsideVideo(i)
    /\ IF SkipLeavesWindow
       THEN WindowStart(i) >= video.skipUntilSec * TicksPerSec
       ELSE WindowStart(i) = Max(0, video.durationSec - SAMPLE_DURATION_SEC) * TicksPerSec

\* C26 witness: windows were sampled after an intro that is skipped
C26_Witness ==
  /\ video # None
  /\ sampleIdx >= 2
  /\ video.skipUntilSec > 0
  /\ SkipLeavesWindow
  /\ WindowStart(0) = video.skipUntilSec * TicksPerSec
  /\ WindowStart(1) > WindowStart(0)

\* windows were sampled inside an intro that leaves no room for a window
C26_WitnessSkipTooLong ==
  /\ video # None
  /\ sampleIdx >= 1
  /\ ~SkipLeavesWindow
  /\ video.durationSec > SAMPLE_DURATION_SEC



----------------------------------------------------------------------------
(* Properties of the track ids *)

IdsOf(trs) == {trs[k].id : k \in 1..Len(trs)}

UniqueIds(trs) == \A j, k \in 1..Len(trs) : j # k => trs[j].id # trs[k].id

\* every id given so far is below the counter
IdsBelowNext == \A id \in IdsOf(tracks) : id < nextTrackId

\* the tracks of the new set that the set before did not hold
SpawnedIds == IdsOf(tracks') \ IdsOf(tracks)

\* a spawned track takes an id from the counter on, above every id given before,
\* and the counter never goes back
SpawnsTakeFreshIds ==
  /\ \A id \in SpawnedIds : id >= nextTrackId /\ id < nextTrackId'
  /\ nextTrackId' >= nextTrackId

\* C27: the ids of a track set are pairwise distinct, and an id once given is
\* never given to a track spawned later, dropped tracks included: every id
\* given so far is below nextTrackId and every spawned track takes an id from
\* nextTrackId on
C27_TrackIdsUniqueNeverReused ==
  /\ [](UniqueIds(tracks) /\ IdsBelowNext)
  /\ [][SpawnsTakeFreshIds]_vars

\* C27 witness: a track is spawned after every earlier track was dropped. Had
\* no track been spawned before, every earlier frame would have run the detector
\* and advanced the counter, and the new id would be frameIdx at least
C27_Witness ==
  /\ lastOp = "associate"
  /\ prevTracks = <<>>
  /\ tracks # <<>>
  /\ \E id \in IdsOf(tracks) : id > 1 /\ id < frameIdx

\* the same on the timelines computeCropMapPerson works on: the ids of every
\* snapshot of detectPersonsTimeline and of buildTracks are pairwise distinct
C27_SnapshotIdsUnique ==
  \A i \in 1..Len(snaps) :
    \A j, k \in 1..Len(snaps[i].dets) :
      j # k => snaps[i].dets[j].id # snaps[i].dets[k].id



----------------------------------------------------------------------------
(* Properties of the zoom on sources at least as wide as the target *)

\* baseW >= floor(baseH * 9 / 16): zMin is 1
WideSource == base.w >= TargetW(base.h)

UnitZoom(kf) == \A i \in 1..Len(kf) : kf[i].z = ZScale

SameSize(kf) == \A i \in 1..Len(kf) : kf[i].w = kf[1].w /\ kf[i].h = kf[1].h

ConstantDimensions(kf) ==
  /\ buildCropDimensionExpr(kf, EvenTargetW(base.h)) = ConstExpr(EvenTargetW(base.h))
  /\ buildCropDimensionExpr(kf, base.h) = ConstExpr(base.h)

\* C28: on a source with baseW >= floor(baseH * 9 / 16) every value of
\* solveZoomSeries and every keyframe returned by computeCropMapPerson has z
\* exactly 1, so the crop width and height are the same in all keyframes and
\* the dimension expressions are emitted in constant form
C28_UnitZoomOnWideSources ==
  (WideSource /\ input # None) =>
    /\ RawKeyframesComputed =>
         Geometry(snaps, input.transcript, input, base).zs
           = [i \in 1..Len(kfIn) |-> ZScale]
    /\ UnitZoom(kfIn)
    /\ UnitZoom(PersonKeyframes)
    /\ SameSize(PersonKeyframes)
    /\ ConstantDimensions(PersonKeyframes)

\* C28 witness: keyframes are returned for a wide source on footage where the
\* group is wider than the target, so that the zoom would go below 1 without
\* the floor
C28_Witness ==
  /\ WideSource
  /\ input # None
  /\ input.script = "two"
  /\ Len(PersonKeyframes) >= 2
  /\ ZMin_ConfiguredOnly(TargetW(base.h), base.w) < ZScale

\* on a narrower source the zoom is not 1
C28_WitnessNarrow ==
  /\ ~WideSource
  /\ Len(PersonKeyframes) >= 1
  /\ ~UnitZoom(PersonKeyframes)



----------------------------------------------------------------------------
(* Properties of the static keyframes as input of buildFFmpegFilter *)

\* computeCropMapPersonStatic(input, constraints, globalCrop) with a global
\* crop: one keyframe at segStart holding the crop as it is
StaticFromGlobalCrop(segStart, globalCrop) ==
  <<KF(segStart, globalCrop.cropX * Sub, globalCrop.cropY * Sub,
       globalCrop.cropW, globalCrop.cropH, globalCrop.zMin)>>

Accepted(kf) == buildFFmpegFilter(base.w, base.h, kf).kind = "filter"

GlobalCropComputed == staticCrop # None /\ staticCrop.kind = "crop"

\* C29: every non-null keyframe sequence computeCropMapPersonStatic returns,
\* here from the global crop of computeGlobalStaticCrop, is accepted by
\* buildFFmpegFilter for the same baseW and baseH without throwing
C29_StaticKeyframesAccepted ==
  GlobalCropComputed => Accepted(StaticFromGlobalCrop(0, staticCrop))

\* what holds: the keyframe of a global crop is accepted on sources at least
\* as wide as floor(baseH * 9 / 16)
C29_AcceptedOnWideSources ==
  (GlobalCropComputed /\ base.w >= TargetW(base.h)) =>
    Accepted(StaticFromGlobalCrop(0, staticCrop))

\* a global crop was computed for a wide source
C29_WideCropComputed == GlobalCropComputed /\ base.w >= TargetW(base.h)

\* the same without a global crop: the keyframe computeCropMapPersonStatic
\* computes from its own detections
C29_OwnKeyframeAccepted ==
  (input # None /\ NonEmpty(StaticOutcome)) => Accepted(StaticOutcome.kf)

C29_OwnKeyframeAcceptedOnWideSources ==
  (input # None /\ NonEmpty(StaticOutcome) /\ WideSource) => Accepted(StaticOutcome.kf)



----------------------------------------------------------------------------
(* processVideo of the worker and the cancel route, one action per await *)

MaxClips == 2          \* selectedSegments.length is at most this
EarlyStages == 2       \* the stages before the global crop, each behind a check

Jobs ==
  { [selected |-> n, numWindows |-> w] :
      n \in 0..MaxClips, w \in {MIN_SAMPLES, MAX_SAMPLES} }

WorkerInit ==
  /\ base \in Sources
  /\ tracks = <<>> /\ nextTrackId = 1 /\ frameIdx = 0
  /\ lastOp = "none" /\ prevTracks = <<>> /\ lastDets = <<>>
  /\ KfIdle
  /\ CropIdle
  /\ StaticIdle
  /\ SolverIdle
  /\ status = "queued"
  /\ job \in Jobs
  /\ stage = 0
  /\ wpc = "start"
  /\ clipIdx = 0
  /\ windowsDone = 0
  /\ rendered = {}
  /\ persisted = {}
  /\ caught = "none"
  /\ cancelPc = "idle"
  /\ atCancel = None

NotWorker == <<base, trackVars, kfVars, cropVars, staticVars, solverVars>>

\* checkCancelled: the status is read, and the error is thrown if it is "cancelled"
Cancelled == status = "cancelled"

\* an error reaches the catch of processVideo
Throws(err) ==
  /\ caught' = err
  /\ wpc' = "catch"

\* prisma.video.update({ status: "processing" })
SetProcessing ==
  /\ wpc = "start"
  /\ status' = "processing"
  /\ wpc' = "check"
  /\ UNCHANGED <<NotWorker, atCancel, job, stage, clipIdx, windowsDone, rendered, persisted, caught,
                 cancelPc>>

\* await checkCancelled(videoId) before a stage (download, audio, transcription,
\* segmentation, ranking)
CheckBeforeStage ==
  /\ wpc = "check"
  /\ IF Cancelled THEN Throws("cancelled")
     ELSE wpc' = "stage" /\ UNCHANGED caught
  /\ UNCHANGED <<NotWorker, atCancel, status, job, stage, clipIdx, windowsDone, rendered, persisted,
                 cancelPc>>

\* the stage itself, which returns or throws
RunStage ==
  /\ wpc = "stage"
  /\ \/ /\ stage' = stage + 1
        /\ wpc' = IF stage + 1 = EarlyStages THEN "globalCrop" ELSE "check"
        /\ UNCHANGED caught
     \/ /\ Throws("error")
        /\ UNCHANGED stage
  /\ UNCHANGED <<NotWorker, atCancel, status, job, clipIdx, windowsDone, rendered, persisted, cancelPc>>

\* computeGlobalStaticCrop(videoPath, durationSec, baseW, baseH): one window of
\* its loop; its arguments hold nothing to read the status with
SampleGlobalWindow ==
  /\ wpc = "globalCrop"
  /\ windowsDone < job.numWindows
  /\ windowsDone' = windowsDone + 1
  /\ UNCHANGED <<NotWorker, atCancel, status, job, stage, wpc, clipIdx, rendered, persisted, caught,
                 cancelPc>>

\* it returns after its last window, or it throws at any point and the catch
\* of the stage logs the error
GlobalCropReturns ==
  /\ wpc = "globalCrop"
  /\ windowsDone <= job.numWindows
  /\ wpc' = "loop"
  /\ UNCHANGED <<NotWorker, atCancel, status, job, stage, clipIdx, windowsDone, rendered, persisted,
                 caught, cancelPc>>

\* for (i < selectedSegments.length) { await checkCancelled(videoId); ...
ClipLoopCheck ==
  /\ wpc = "loop"
  /\ IF clipIdx >= job.selected THEN wpc' = "complete" /\ UNCHANGED caught
     ELSE IF Cancelled THEN Throws("cancelled")
     ELSE wpc' = "segment" /\ UNCHANGED caught
  /\ UNCHANGED <<NotWorker, atCancel, status, job, stage, clipIdx, windowsDone, rendered, persisted,
                 cancelPc>>

\* the checks of processSegment (at its start, after the render, after the
\* scoring, before prisma.clip.create) and what follows each
SegmentChecks == {"segment", "rendered", "scored", "uploaded"}
AfterCheck(at) ==
  IF at = "segment" THEN "render"
  ELSE IF at = "rendered" THEN "score"
  ELSE IF at = "scored" THEN "upload"
  ELSE "persist"

\* the error of a check inside processSegment is caught by the clip loop, which
\* throws it again because its message holds "cancelled"
SegmentCheck ==
  /\ wpc \in SegmentChecks
  /\ IF Cancelled THEN Throws("cancelled")
     ELSE wpc' = AfterCheck(wpc) /\ UNCHANGED caught
  /\ UNCHANGED <<NotWorker, atCancel, status, job, stage, clipIdx, windowsDone, rendered, persisted,
                 cancelPc>>

\* the clip is counted as done, or the catch of the clip loop counts it as
\* failed for any error that is not a cancellation: the loop goes on
NextClip ==
  /\ clipIdx' = clipIdx + 1
  /\ wpc' = "loop"

\* framing and renderSmartFramedClip or renderVerticalClip, probeBitrate
RenderClip ==
  /\ wpc = "render"
  /\ \/ /\ rendered' = rendered \cup {clipIdx}
        /\ wpc' = "rendered"
        /\ UNCHANGED clipIdx
     \/ /\ NextClip
        /\ UNCHANGED rendered
  /\ UNCHANGED <<NotWorker, atCancel, status, job, stage, windowsDone, persisted, caught, cancelPc>>

\* scoreClip and extractThumbnail, then the uploads
ScoreOrUpload ==
  /\ wpc \in {"score", "upload"}
  /\ \/ /\ wpc' = IF wpc = "score" THEN "scored" ELSE "uploaded"
        /\ UNCHANGED clipIdx
     \/ NextClip
  /\ UNCHANGED <<NotWorker, atCancel, status, job, stage, windowsDone, rendered, persisted, caught,
                 cancelPc>>

\* prisma.clip.create
PersistClip ==
  /\ wpc = "persist"
  /\ \/ persisted' = persisted \cup {clipIdx}
     \/ UNCHANGED persisted
  /\ NextClip
  /\ UNCHANGED <<NotWorker, atCancel, status, job, stage, windowsDone, rendered, caught, cancelPc>>

\* const finalVideo = await prisma.video.findUnique(...): the row exists
ReadFinalVideo ==
  /\ wpc = "complete"
  /\ wpc' = "writeCompleted"
  /\ UNCHANGED <<NotWorker, atCancel, status, job, stage, clipIdx, windowsDone, rendered, persisted,
                 caught, cancelPc>>

\* prisma.video.update({ status: "completed" })
WriteCompleted ==
  /\ wpc = "writeCompleted"
  /\ status' = "completed"
  /\ wpc' = "finished"
  /\ UNCHANGED <<NotWorker, atCancel, job, stage, clipIdx, windowsDone, rendered, persisted, caught,
                 cancelPc>>

\* catch: the message holds "cancelled by user" and the status is kept, or
\* the row is read before it is marked as failed
CatchError ==
  /\ wpc = "catch"
  /\ wpc' = IF caught = "cancelled" THEN "finished" ELSE "writeFailed"
  /\ UNCHANGED <<NotWorker, atCancel, status, job, stage, clipIdx, windowsDone, rendered, persisted,
                 caught, cancelPc>>

\* prisma.video.update({ status: "failed" }), and the error is thrown again
WriteFailed ==
  /\ wpc = "writeFailed"
  /\ status' = "failed"
  /\ wpc' = "finished"
  /\ UNCHANGED <<NotWorker, atCancel, job, stage, clipIdx, windowsDone, rendered, persisted, caught,
                 cancelPc>>

\* POST of the cancel route: the row is read, and the request is refused
\* unless the status is "processing"; a refused request may be sent again
CancelRead ==
  /\ cancelPc \in {"idle", "refused"}
  /\ cancelPc' = IF status = "processing" THEN "remove" ELSE "refused"
  /\ UNCHANGED <<NotWorker, atCancel, status, job, stage, wpc, clipIdx, windowsDone, rendered,
                 persisted, caught>>

\* job.remove(), which returns or throws (the route then answers 500)
CancelRemoveJob ==
  /\ cancelPc = "remove"
  /\ cancelPc' \in {"write", "failed"}
  /\ UNCHANGED <<NotWorker, atCancel, status, job, stage, wpc, clipIdx, windowsDone, rendered,
                 persisted, caught>>

\* prisma.video.update({ status: 'cancelled' })
CancelWrite ==
  /\ cancelPc = "write"
  /\ status' = "cancelled"
  /\ cancelPc' = "done"
  /\ atCancel' = [windowsDone |-> windowsDone, clipIdx |-> clipIdx,
                  rendered |-> rendered, persisted |-> persisted]
  /\ UNCHANGED <<NotWorker, job, stage, wpc, clipIdx, windowsDone, rendered, persisted,
                 caught>>

WorkerNext ==
  \/ SetProcessing \/ CheckBeforeStage \/ RunStage
  \/ SampleGlobalWindow \/ GlobalCropReturns
  \/ ClipLoopCheck \/ SegmentCheck \/ RenderClip \/ ScoreOrUpload \/ PersistClip
  \/ ReadFinalVideo \/ WriteCompleted \/ CatchError \/ WriteFailed
  \/ CancelRead \/ CancelRemoveJob \/ CancelWrite

SpecWorker == WorkerInit /\ [][WorkerNext]_vars



----------------------------------------------------------------------------
(* Properties of the cancellation *)

InGlobalCrop == wpc = "globalCrop"

CancelWritten == atCancel # None

\* once the route has written 'cancelled', at most the window that had passed
\* its check is still sampled
WindowsStopAfterCancel ==
  CancelWritten => windowsDone <= atCancel.windowsDone + 1

\* once the route has written 'cancelled', no later clip is rendered or
\* persisted: at most the clip that was in hand gets the step it had been
\* checked for
ClipsStopAfterCancel ==
  CancelWritten =>
    /\ rendered \ atCancel.rendered \subseteq {atCancel.clipIdx}
    /\ persisted \ atCancel.persisted \subseteq {atCancel.clipIdx}

\* once a check has thrown, nothing is sampled, rendered or persisted
AbortedJobDoesNothing ==
  caught = "cancelled" =>
    /\ rendered' = rendered
    /\ persisted' = persisted
    /\ windowsDone' = windowsDone

\* C25: the worker checks for cancellation before each clip of the selected
\* list and between the sampled windows of computeGlobalStaticCrop, and a
\* cancellation observed at a check aborts the job: once the status is
\* 'cancelled', no window beyond the one in hand is sampled and no later clip
\* is rendered or persisted
C25_CancellationCheckedBetweenStages ==
  /\ WindowsStopAfterCancel
  /\ ClipsStopAfterCancel

\* what holds: the checks of the clip loop and of processSegment
C25_CancellationCheckedBetweenClips == ClipsStopAfterCancel

C25_AbortedJobDoesNothing == [][AbortedJobDoesNothing]_vars

\* a cancellation was observed by the check before the second clip, after the
\* first clip was rendered and persisted
C25_AbortedBetweenClips ==
  /\ caught = "cancelled"
  /\ clipIdx = 1
  /\ rendered = {0}
  /\ persisted = {0}
  /\ wpc = "finished"

\* the status is "cancelled" and all windows are sampled all the same
C25_SampledThroughCancellation ==
  /\ Cancelled
  /\ InGlobalCrop
  /\ CancelWritten
  /\ atCancel.windowsDone = 0
  /\ windowsDone = MAX_SAMPLES

\* C30: once the cancel route has set the status to 'cancelled' while
\* processVideo runs, the worker never overwrites it with 'completed' or
\* 'failed', under any interleaving
C30_CancelledNeverOverwritten == [][Cancelled => status' = "cancelled"]_vars

\* the same, of the final status
C30_FinalStatusCancelled ==
  (wpc = "finished" /\ cancelPc = "done") => Cancelled

\* what holds: a job that saw the cancellation at a check leaves the status alone
C30_ObservedCancellationKept ==
  caught = "cancelled" => Cancelled

C30_ObservedCancellation ==
  /\ wpc = "finished"
  /\ caught = "cancelled"
  /\ Cancelled


====
